---- MODULE Spec2Model ----
(***************************************************************************)
(* Kestrel monitoring core: MeasurementWindow, rules, Engine,              *)
(* FaultInjector, SensorManager, Logger and the supervisor loop of main,   *)
(* modelled from src/core.                                                 *)
(*                                                                         *)
(* Units.  Sample values are the C++ doubles scaled by 100 (0.5 is 50),    *)
(* instants of std::chrono::steady_clock are natural numbers, and the      *)
(* default time_point{} (the epoch) is 0.  The double seconds of the       *)
(* supervisor loop (elapsed_s, trigger_after_s, duration_s) are numbers    *)
(* of a format with Grain steps per loop period below one period and one   *)
(* step per period from there on, so that a sum is rounded as a double     *)
(* sum is.                                                                 *)
(***************************************************************************)
EXTENDS Integers, Sequences, FiniteSets, TLC

VARIABLES window, pushed, window_crashed,
          engine, clock, consumed, last_valid, nprocessed, engine_crashed,
          engineA, engineB, clockA, clockB, nfed,
          injector, injected, applied, nops,
          pipe_engine, pipe_injector, pipe_clock, pipe_hist,
          entries, poll_clock, poll_log, registered_at,
          sup_fault_configs, sup_injector, sup_sensor_mgr, sup_engine,
          sup_prev_transition_count, sup_start_time, sup_now, sup_tick,
          sup_nticks, sup_log, running, sup_pc, sup_exit, sup_stop,
          file_, cout, mutex_, log_pc, log_json, log_calls,
          start_argv, start_files, start_pc, start_args, start_log_open,
          start_nticks, start_lines, start_exit,
          restartAttempts, backoffDelay, coreError, aggregateLabel,
          watchdogTimer, coreProcess, lastDataTimestamp, wd_clock,
          wd_pending, wd_main_pc, wd_register, wd_line_pc, wd_consecutive,
          wd_rank, wd_manual,
          rule_under, rule_window, rule_clock, rule_npushed, rule_eval,
          iso_injector, iso_faulted, iso_clean, iso_now_faulted,
          iso_now_clean, iso_nticks

vars == <<window, pushed, window_crashed,
          engine, clock, consumed, last_valid, nprocessed, engine_crashed,
          engineA, engineB, clockA, clockB, nfed,
          injector, injected, applied, nops,
          pipe_engine, pipe_injector, pipe_clock, pipe_hist,
          entries, poll_clock, poll_log, registered_at,
          sup_fault_configs, sup_injector, sup_sensor_mgr, sup_engine,
          sup_prev_transition_count, sup_start_time, sup_now, sup_tick,
          sup_nticks, sup_log, running, sup_pc, sup_exit, sup_stop,
          file_, cout, mutex_, log_pc, log_json, log_calls,
          start_argv, start_files, start_pc, start_args, start_log_open,
          start_nticks, start_lines, start_exit,
          restartAttempts, backoffDelay, coreError, aggregateLabel,
          watchdogTimer, coreProcess, lastDataTimestamp, wd_clock,
          wd_pending, wd_main_pc, wd_register, wd_line_pc, wd_consecutive,
          wd_rank, wd_manual,
          rule_under, rule_window, rule_clock, rule_npushed, rule_eval,
          iso_injector, iso_faulted, iso_clean, iso_now_faulted,
          iso_now_clean, iso_nticks>>

windowVars == <<window, pushed, window_crashed>>

engineVars == <<engine, clock, consumed, last_valid, nprocessed, engine_crashed>>

detVars == <<engineA, engineB, clockA, clockB, nfed>>

faultVars == <<injector, injected, applied, nops>>

pipeVars == <<pipe_engine, pipe_injector, pipe_clock, pipe_hist>>

pollVars == <<entries, poll_clock, poll_log, registered_at>>

supVars ==
    <<sup_fault_configs, sup_injector, sup_sensor_mgr, sup_engine,
      sup_prev_transition_count, sup_start_time, sup_now, sup_tick,
      sup_nticks, sup_log, running, sup_pc, sup_exit, sup_stop>>

logVars == <<file_, cout, mutex_, log_pc, log_json, log_calls>>

startVars ==
    <<start_argv, start_files, start_pc, start_args, start_log_open,
      start_nticks, start_lines, start_exit>>

wdVars ==
    <<restartAttempts, backoffDelay, coreError, aggregateLabel,
      watchdogTimer, coreProcess, lastDataTimestamp, wd_clock, wd_pending,
      wd_main_pc, wd_register, wd_line_pc, wd_consecutive, wd_rank,
      wd_manual>>

ruleVars ==
    <<rule_under, rule_window, rule_clock, rule_npushed, rule_eval>>

isoVars ==
    <<iso_injector, iso_faulted, iso_clean, iso_now_faulted, iso_now_clean,
      iso_nticks>>

\* the variables of the components and assemblies modelled further down
laterVars == <<pipeVars, pollVars, supVars, logVars, startVars, wdVars,
               ruleVars,
               isoVars>>

\* what the fault stage in front of the engine leaves alone
notPipeVars ==
    <<windowVars, engineVars, detVars, faultVars, pollVars, supVars,
      logVars, startVars, wdVars, ruleVars, isoVars>>

\* what the sensor manager leaves alone
notPollVars ==
    <<windowVars, engineVars, detVars, faultVars, pipeVars, supVars,
      logVars, startVars, wdVars, ruleVars, isoVars>>

\* what the supervisor loop leaves alone
notSupVars ==
    <<windowVars, engineVars, detVars, faultVars, pipeVars, pollVars,
      logVars, startVars, wdVars, ruleVars, isoVars>>

\* what the logger leaves alone
notLogVars ==
    <<windowVars, engineVars, detVars, faultVars, pipeVars, pollVars,
      supVars, startVars, wdVars, ruleVars, isoVars>>

\* what the start of main leaves alone
notStartVars ==
    <<windowVars, engineVars, detVars, faultVars, pipeVars, pollVars,
      supVars, logVars, wdVars, ruleVars, isoVars>>

\* what the menu-bar watchdog leaves alone
notWdVars ==
    <<windowVars, engineVars, detVars, faultVars, pipeVars, pollVars,
      supVars, logVars, startVars, ruleVars, isoVars>>

\* what the evaluation of a single rule leaves alone
notRuleVars ==
    <<windowVars, engineVars, detVars, faultVars, pipeVars, pollVars,
      supVars, logVars, startVars, wdVars, isoVars>>

\* what the pair of supervisor runs leaves alone
notIsoVars ==
    <<windowVars, engineVars, detVars, faultVars, pipeVars, pollVars,
      supVars, logVars, startVars, wdVars, ruleVars>>

(***************************************************************************)
(* Bounds of the model                                                     *)
(***************************************************************************)
\* largest window capacity a constructor call is given
MaxCap == 2

\* number of push calls on the stand-alone window
MaxPush == 5

\* number of samples one engine consumes
MaxSamples == 2

\* largest batch handed to one process() call
MaxBatch == 2

\* last instant of the steady clock
MaxClock == 1

\* number of add_rule calls
MaxRules == 2

\* number of operations on the stand-alone fault injector
MaxOps == 5

\* largest suppress_cycles a fault is injected with
MaxSuppress == 2

\* number of samples sent through the fault stage into the engine
MaxPiped == 3

\* number of rules registered in front of the fault stage's engine
MaxPipeRules == 1

\* number of poll() calls on the stand-alone sensor manager
MaxPolls == 3

\* last instant of the steady clock the sensor manager reads
MaxPollClock == 4

\* longest polling interval a sensor is registered with
MaxInterval == 2

\* number of iterations of the supervisor loop
MaxTicks == 3

\* number of faults in the fault profile
MaxFaults == 2

\* latest trigger_after_s and longest duration_s of a fault of the profile,
\* in the seconds one loop period takes
MaxTrigger == 1

\* number of log operations one thread calls
MaxLogCalls == 2

\* number of arguments on the command line
MaxArgs == 3

\* capacity of the window of a default-constructed Engine
DefaultCapacity == 64

\* what duration<double>(...).count() returns for one loop period; from
\* this value on, the doubles of the model are Grain apart
Grain == 2

\* signal ids
Ids == {"a", "b"}

\* sample values (scaled by 100): 0.5 and 500.0
Values == {50, 50000}

(***************************************************************************)
(* sensors/sensor.h: SensorReading                                         *)
(***************************************************************************)
SensorReading(id, value, valid, ts) ==
    [sensor_id |-> id, value |-> value, valid |-> valid, timestamp |-> ts]

(***************************************************************************)
(* engine/measurement_window.{h,cpp}                                       *)
(***************************************************************************)
\* a default-constructed RingBuffer, as operator[] of buffers_ creates it
RingBuffer == [buffer |-> <<>>, head |-> 0, count |-> 0]

\* MeasurementWindow::MeasurementWindow(capacity): stores the capacity as
\* given, zero included
MeasurementWindow(capacity) ==
    [capacity_ |-> capacity, buffers_ |-> <<>>]

\* the ring of a signal after buffers_[reading.sensor_id]
RingOf(w, id) ==
    IF id \in DOMAIN w.buffers_ THEN w.buffers_[id] ELSE RingBuffer

\* push without the eviction branch: the ring grows on every push
Push_unbounded(w, reading) ==
    LET rb == RingOf(w, reading.sensor_id)
        nrb == [buffer |-> Append(rb.buffer, reading),
                head   |-> Len(rb.buffer),
                count  |-> Len(rb.buffer) + 1]
    IN  [w EXCEPT !.buffers_ =
            [i \in (DOMAIN w.buffers_) \cup {reading.sensor_id} |->
                IF i = reading.sensor_id THEN nrb ELSE w.buffers_[i]]]

\* MeasurementWindow::push, for capacity_ >= 1 (head is 0-based as in the
\* code, TLA+ sequences are 1-based)
Push(w, reading) ==
    LET rb == RingOf(w, reading.sensor_id)
        nrb == IF Len(rb.buffer) < w.capacity_
               THEN [buffer |-> Append(rb.buffer, reading),
                     head   |-> Len(rb.buffer),
                     count  |-> Len(rb.buffer) + 1]
               ELSE LET h == (rb.head + 1) % w.capacity_
                    IN  [buffer |-> [rb.buffer EXCEPT ![h + 1] = reading],
                         head   |-> h,
                         count  |-> w.capacity_]
    IN  [w EXCEPT !.buffers_ =
            [i \in (DOMAIN w.buffers_) \cup {reading.sensor_id} |->
                IF i = reading.sensor_id THEN nrb ELSE w.buffers_[i]]]

\* MeasurementWindow::push with capacity_ = 0 evaluates (head + 1) % 0 and
\* then indexes an empty vector: undefined behaviour
PushIsUndefined(w) == w.capacity_ = 0

\* readings_for that walks the ring from slot 0 instead of from the oldest
ReadingsFor_fromSlotZero(w, id) ==
    IF id \notin DOMAIN w.buffers_ THEN <<>>
    ELSE LET rb == w.buffers_[id]
         IN  [i \in 1..rb.count |-> rb.buffer[((i - 1) % Len(rb.buffer)) + 1]]

\* MeasurementWindow::readings_for
ReadingsFor(w, id) ==
    IF id \notin DOMAIN w.buffers_ THEN <<>>
    ELSE LET rb == w.buffers_[id]
             start == IF rb.count < w.capacity_ THEN 0
                      ELSE (rb.head + 1) % w.capacity_
         IN  [i \in 1..rb.count |->
                 rb.buffer[((start + (i - 1)) % Len(rb.buffer)) + 1]]

\* MeasurementWindow::latest
Latest(w, id) ==
    IF id \notin DOMAIN w.buffers_ \/ w.buffers_[id].count = 0
    THEN SensorReading(id, 0, FALSE, 0)
    ELSE w.buffers_[id].buffer[w.buffers_[id].head + 1]

(***************************************************************************)
(* rules/rule.h: RuleSeverity, and the four rules.  A rule is a record of  *)
(* its constructor arguments; Evaluate dispatches on its class.  Of a      *)
(* RuleResult only the severity is modelled (name and message decide       *)
(* nothing).                                                               *)
(***************************************************************************)
RuleSeverity == {"OK", "DEGRADED", "FAILED"}

\* ThresholdRule(min, max, breach_severity, target_sensor)
ThresholdRule(min, max, breach_severity, target_sensor) ==
    [class |-> "ThresholdRule", min_ |-> min, max_ |-> max,
     breach_severity_ |-> breach_severity,
     use_global_ |-> (target_sensor = ""),
     bounds_ |-> IF target_sensor = "" THEN <<>>
                 ELSE [i \in {target_sensor} |->
                          [min |-> min, max |-> max,
                           breach_severity |-> breach_severity]]]

\* ThresholdRule(bounds): use_global_ keeps its default, false
ThresholdRuleMap(bounds) ==
    [class |-> "ThresholdRule", min_ |-> 0, max_ |-> 0,
     breach_severity_ |-> "DEGRADED", use_global_ |-> FALSE,
     bounds_ |-> bounds]

ImplausibleValueRule(absolute_min, absolute_max) ==
    [class |-> "ImplausibleValueRule",
     absolute_min_ |-> absolute_min, absolute_max_ |-> absolute_max]

RateOfChangeRule(max_rate_per_second) ==
    [class |-> "RateOfChangeRule", max_rate_per_second_ |-> max_rate_per_second]

MissingDataRule(max_age, fail_age) ==
    [class |-> "MissingDataRule", max_age_ |-> max_age, fail_age_ |-> fail_age]

\* a threshold rule whose bounds are themselves a breach
ThresholdEvaluate_boundsBreach(rule, w, sensor_id) ==
    LET latest == Latest(w, sensor_id)
    IN  IF rule.use_global_
        THEN IF ~latest.valid THEN "FAILED"
             ELSE IF latest.value <= rule.min_ \/ latest.value >= rule.max_
                  THEN rule.breach_severity_
                  ELSE "OK"
        ELSE IF sensor_id \notin DOMAIN rule.bounds_ THEN "OK"
             ELSE LET b == rule.bounds_[sensor_id]
                  IN  IF ~latest.valid THEN "FAILED"
                      ELSE IF latest.value <= b.min \/ latest.value >= b.max
                           THEN b.breach_severity
                           ELSE "OK"

\* ThresholdRule::evaluate
ThresholdEvaluate(rule, w, sensor_id) ==
    LET latest == Latest(w, sensor_id)
    IN  IF rule.use_global_
        THEN IF ~latest.valid THEN "FAILED"
             ELSE IF latest.value < rule.min_ \/ latest.value > rule.max_
                  THEN rule.breach_severity_
                  ELSE "OK"
        ELSE IF sensor_id \notin DOMAIN rule.bounds_ THEN "OK"
             ELSE LET b == rule.bounds_[sensor_id]
                  IN  IF ~latest.valid THEN "FAILED"
                      ELSE IF latest.value < b.min \/ latest.value > b.max
                           THEN b.breach_severity
                           ELSE "OK"

\* an implausible-value rule that accepts every value
ImplausibleEvaluate_acceptsAll(rule, w, sensor_id) == "OK"

\* ImplausibleValueRule::evaluate
ImplausibleEvaluate(rule, w, sensor_id) ==
    LET latest == Latest(w, sensor_id)
    IN  IF ~latest.valid THEN "OK"
        ELSE IF latest.value < rule.absolute_min_
                \/ latest.value > rule.absolute_max_
             THEN "FAILED"
             ELSE "OK"

Abs(x) == IF x < 0 THEN -x ELSE x

\* RateOfChangeRule::evaluate; rate > max_rate is |dv| / dt > max_rate with
\* dt > 0, stated without the division
RateOfChangeEvaluate(rule, w, sensor_id) ==
    LET readings == ReadingsFor(w, sensor_id)
        n == Len(readings)
    IN  IF n < 2 THEN "OK"
        ELSE LET prev == readings[n - 1]
                 curr == readings[n]
                 dt == curr.timestamp - prev.timestamp
             IN  IF ~prev.valid \/ ~curr.valid THEN "OK"
                 ELSE IF dt <= 0 THEN "OK"
                 ELSE IF Abs(curr.value - prev.value)
                            > rule.max_rate_per_second_ * dt
                      THEN "DEGRADED"
                      ELSE "OK"

\* a missing-data rule for which an age equal to a limit is past the limit
MissingDataEvaluate_limitsExceed(rule, w, sensor_id, now) ==
    LET latest == Latest(w, sensor_id)
        age == now - latest.timestamp
    IN  IF ~latest.valid THEN "FAILED"
        ELSE IF age >= rule.fail_age_ THEN "FAILED"
        ELSE IF age >= rule.max_age_ THEN "DEGRADED"
        ELSE "OK"

\* MissingDataRule::evaluate; now is what steady_clock::now() returns
MissingDataEvaluate(rule, w, sensor_id, now) ==
    LET latest == Latest(w, sensor_id)
        age == now - latest.timestamp
    IN  IF ~latest.valid THEN "FAILED"
        ELSE IF age > rule.fail_age_ THEN "FAILED"
        ELSE IF age > rule.max_age_ THEN "DEGRADED"
        ELSE "OK"

\* IRule::evaluate, the virtual call
Evaluate(rule, w, sensor_id, now) ==
    CASE rule.class = "ThresholdRule" -> ThresholdEvaluate(rule, w, sensor_id)
      [] rule.class = "ImplausibleValueRule" -> ImplausibleEvaluate(rule, w, sensor_id)
      [] rule.class = "RateOfChangeRule" -> RateOfChangeEvaluate(rule, w, sensor_id)
      [] rule.class = "MissingDataRule" -> MissingDataEvaluate(rule, w, sensor_id, now)

(***************************************************************************)
(* engine/system_state.h, engine/engine.{h,cpp}                            *)
(***************************************************************************)
SystemState == {"OK", "DEGRADED", "FAILED", "UNKNOWN"}

\* Engine::Engine(window_capacity)
Engine(window_capacity) ==
    [window_ |-> MeasurementWindow(window_capacity),
     rules_ |-> <<>>,
     sensor_states_ |-> <<>>,
     transitions_ |-> <<>>]

\* Engine::add_rule
AddRuleTo(e, rule) == [e EXCEPT !.rules_ = Append(@, rule)]

\* the rule loop of Engine::evaluate_sensor from rule number i on: the first
\* rule whose result is FAILED or DEGRADED decides
RECURSIVE RunRules(_, _, _, _)
RunRules(e, sensor_id, now, i) ==
    IF i > Len(e.rules_) THEN "OK"
    ELSE LET severity == Evaluate(e.rules_[i], e.window_, sensor_id, now)
         IN  IF severity = "FAILED" THEN "FAILED"
             ELSE IF severity = "DEGRADED" THEN "DEGRADED"
             ELSE RunRules(e, sensor_id, now, i + 1)

\* evaluate_sensor without the validity check: the rules alone decide
EvaluateSensor_noValidCheck(e, sensor_id, now) ==
    RunRules(e, sensor_id, now, 1)

\* evaluate_sensor that has no verdict, UNKNOWN, when no rule is registered
EvaluateSensor_unknownWithoutRules(e, sensor_id, now) ==
    IF ~Latest(e.window_, sensor_id).valid THEN "FAILED"
    ELSE IF e.rules_ = <<>> THEN "UNKNOWN"
    ELSE RunRules(e, sensor_id, now, 1)

\* Engine::evaluate_sensor
EvaluateSensor(e, sensor_id, now) ==
    IF ~Latest(e.window_, sensor_id).valid THEN "FAILED"
    ELSE RunRules(e, sensor_id, now, 1)

\* transition that records the change but does not store the new state
Transition_stateNotStored(e, sensor_id, new_state, reason, now) ==
    [e EXCEPT !.transitions_ = Append(@, [sensor_id |-> sensor_id,
                                          from |-> e.sensor_states_[sensor_id],
                                          to |-> new_state,
                                          reason |-> reason,
                                          timestamp |-> now])]

\* transition that stores the new state for every signal the engine knows
Transition_everySignal(e, sensor_id, new_state, reason, now) ==
    [e EXCEPT !.sensor_states_ = [i \in DOMAIN @ |-> new_state],
              !.transitions_ = Append(@, [sensor_id |-> sensor_id,
                                          from |-> e.sensor_states_[sensor_id],
                                          to |-> new_state,
                                          reason |-> reason,
                                          timestamp |-> now])]

\* transition that stores the new state before it reads the old one
Transition_fromAfterStore(e, sensor_id, new_state, reason, now) ==
    [e EXCEPT !.sensor_states_[sensor_id] = new_state,
              !.transitions_ = Append(@, [sensor_id |-> sensor_id,
                                          from |-> new_state,
                                          to |-> new_state,
                                          reason |-> reason,
                                          timestamp |-> now])]

\* Engine::transition
Transition(e, sensor_id, new_state, reason, now) ==
    [e EXCEPT !.sensor_states_[sensor_id] = new_state,
              !.transitions_ = Append(@, [sensor_id |-> sensor_id,
                                          from |-> e.sensor_states_[sensor_id],
                                          to |-> new_state,
                                          reason |-> reason,
                                          timestamp |-> now])]

\* a loop body that only initializes a signal it sees for the first time and
\* evaluates it from its second reading on
ProcessOne_firstOnlyInitializes(e, reading, now) ==
    LET id == reading.sensor_id
        e1 == [e EXCEPT !.window_ = Push(e.window_, reading),
                        !.sensor_states_ =
                            IF id \in DOMAIN e.sensor_states_ THEN @
                            ELSE [i \in (DOMAIN @) \cup {id} |->
                                     IF i = id THEN "UNKNOWN" ELSE @[i]]]
        new_state == EvaluateSensor(e1, id, now)
    IN  IF id \in DOMAIN e.sensor_states_ /\ new_state # e1.sensor_states_[id]
        THEN Transition(e1, id, new_state, "rule_evaluation", now)
        ELSE e1

\* a loop body that records a transition for every reading, changed state or
\* not
ProcessOne_alwaysTransitions(e, reading, now) ==
    LET id == reading.sensor_id
        e1 == [e EXCEPT !.window_ = Push(e.window_, reading),
                        !.sensor_states_ =
                            IF id \in DOMAIN e.sensor_states_ THEN @
                            ELSE [i \in (DOMAIN @) \cup {id} |->
                                     IF i = id THEN "UNKNOWN" ELSE @[i]]]
        new_state == EvaluateSensor(e1, id, now)
    IN  Transition(e1, id, new_state, "rule_evaluation", now)

\* the body of the loop of Engine::process for one reading
ProcessOne(e, reading, now) ==
    LET id == reading.sensor_id
        e1 == [e EXCEPT !.window_ = Push(e.window_, reading),
                        !.sensor_states_ =
                            IF id \in DOMAIN e.sensor_states_ THEN @
                            ELSE [i \in (DOMAIN @) \cup {id} |->
                                     IF i = id THEN "UNKNOWN" ELSE @[i]]]
        new_state == EvaluateSensor(e1, id, now)
    IN  IF new_state # e1.sensor_states_[id]
        THEN Transition(e1, id, new_state, "rule_evaluation", now)
        ELSE e1

\* Engine::process
RECURSIVE Process(_, _, _)
Process(e, readings, now) ==
    IF readings = <<>> THEN e
    ELSE Process(ProcessOne(e, Head(readings), now), Tail(readings), now)

\* Engine::sensor_state
SensorStateOf(e, sensor_id) ==
    IF sensor_id \notin DOMAIN e.sensor_states_ THEN "UNKNOWN"
    ELSE e.sensor_states_[sensor_id]

\* the loop of Engine::aggregate_state over the entries of sensor_states_ in
\* the order the unordered_map iterates them
RECURSIVE AggregateLoop(_, _, _)
AggregateLoop(e, order, worst) ==
    IF order = <<>> THEN worst
    ELSE LET state == e.sensor_states_[Head(order)]
         IN  IF state = "FAILED" THEN "FAILED"
             ELSE IF state = "UNKNOWN"
                  THEN AggregateLoop(e, Tail(order), "UNKNOWN")
             ELSE IF state = "DEGRADED" /\ worst = "OK"
                  THEN AggregateLoop(e, Tail(order), "DEGRADED")
             ELSE AggregateLoop(e, Tail(order), worst)

\* aggregate_state without the test for an empty map
AggregateState_noEmptyTest(e, order) ==
    AggregateLoop(e, order, "OK")

\* Engine::aggregate_state, order being the iteration order of the map
AggregateState(e, order) ==
    IF DOMAIN e.sensor_states_ = {} THEN "UNKNOWN"
    ELSE AggregateLoop(e, order, "OK")

\* the orders in which an unordered_map with these keys can be iterated
IterationOrders(keys) ==
    {o \in [1..Cardinality(keys) -> keys] :
        \A i, j \in 1..Cardinality(keys) : o[i] = o[j] => i = j}

(***************************************************************************)
(* fault/fault_injector.{h,cpp}.  faults_ maps a signal id to its          *)
(* ActiveFault.                                                            *)
(***************************************************************************)
FaultType ==
    {"INVALID_VALUE", "DELAYED_READING", "MISSING_UPDATE", "SPIKE",
     "INTERFACE_FAILURE"}

FaultParameters(injected_value, suppress_cycles, delay_ms) ==
    [injected_value |-> injected_value, suppress_cycles |-> suppress_cycles,
     delay_ms |-> delay_ms]

\* inject that starts a fault with no cycles left instead of suppress_cycles
Inject_cyclesNotSet(faults, sensor_id, type, params) ==
    [i \in (DOMAIN faults) \cup {sensor_id} |->
        IF i = sensor_id
        THEN [type |-> type, params |-> params, cycles_remaining |-> 0]
        ELSE faults[i]]

\* inject that leaves an existing fault of the signal in place
Inject_keepsExisting(faults, sensor_id, type, params) ==
    [i \in (DOMAIN faults) \cup {sensor_id} |->
        IF i = sensor_id /\ i \notin DOMAIN faults
        THEN [type |-> type, params |-> params,
              cycles_remaining |-> params.suppress_cycles]
        ELSE faults[i]]

\* FaultInjector::inject
Inject(faults, sensor_id, type, params) ==
    [i \in (DOMAIN faults) \cup {sensor_id} |->
        IF i = sensor_id
        THEN [type |-> type, params |-> params,
              cycles_remaining |-> params.suppress_cycles]
        ELSE faults[i]]

\* faults_.erase(sensor_id)
Erase(faults, sensor_id) ==
    [i \in (DOMAIN faults) \ {sensor_id} |-> faults[i]]

\* clear that empties the whole table
Clear_dropsEveryFault(faults, sensor_id) == <<>>

\* FaultInjector::clear
Clear(faults, sensor_id) == Erase(faults, sensor_id)

\* FaultInjector::clear_all
ClearAll(faults) == <<>>

\* FaultInjector::has_fault
HasFault(faults, sensor_id) == sensor_id \in DOMAIN faults

\* apply whose SPIKE case forgets to erase the fault
Apply_spikeNotErased(faults, reading) ==
    IF reading.sensor_id \notin DOMAIN faults
    THEN [reading |-> reading, faults_ |-> faults, slept |-> 0]
    ELSE LET id == reading.sensor_id
             fault == faults[id]
         IN  CASE fault.type = "INVALID_VALUE" ->
                    [reading |-> [reading EXCEPT
                                     !.value = fault.params.injected_value],
                     faults_ |-> faults, slept |-> 0]
               [] fault.type = "DELAYED_READING" ->
                    [reading |-> reading, faults_ |-> faults,
                     slept |-> fault.params.delay_ms]
               [] fault.type = "MISSING_UPDATE" ->
                    IF fault.cycles_remaining > 0
                    THEN [reading |-> [reading EXCEPT !.valid = FALSE],
                          faults_ |-> [faults EXCEPT ![id].cycles_remaining
                                                        = @ - 1],
                          slept |-> 0]
                    ELSE [reading |-> reading, faults_ |-> Erase(faults, id),
                          slept |-> 0]
               [] fault.type = "SPIKE" ->
                    [reading |-> [reading EXCEPT
                                     !.value = fault.params.injected_value],
                     faults_ |-> faults, slept |-> 0]
               [] fault.type = "INTERFACE_FAILURE" ->
                    [reading |-> [reading EXCEPT !.valid = FALSE],
                     faults_ |-> faults, slept |-> 0]

\* apply that marks the reading of a signal without a fault invalid
Apply_unfaultedInvalidated(faults, reading) ==
    IF reading.sensor_id \notin DOMAIN faults
    THEN [reading |-> [reading EXCEPT !.valid = FALSE], faults_ |-> faults,
          slept |-> 0]
    ELSE LET id == reading.sensor_id
             fault == faults[id]
         IN  CASE fault.type = "INVALID_VALUE" ->
                    [reading |-> [reading EXCEPT
                                     !.value = fault.params.injected_value],
                     faults_ |-> faults, slept |-> 0]
               [] fault.type = "DELAYED_READING" ->
                    [reading |-> reading, faults_ |-> faults,
                     slept |-> fault.params.delay_ms]
               [] fault.type = "MISSING_UPDATE" ->
                    IF fault.cycles_remaining > 0
                    THEN [reading |-> [reading EXCEPT !.valid = FALSE],
                          faults_ |-> [faults EXCEPT ![id].cycles_remaining
                                                        = @ - 1],
                          slept |-> 0]
                    ELSE [reading |-> reading, faults_ |-> Erase(faults, id),
                          slept |-> 0]
               [] fault.type = "SPIKE" ->
                    [reading |-> [reading EXCEPT
                                     !.value = fault.params.injected_value],
                     faults_ |-> Erase(faults, id), slept |-> 0]
               [] fault.type = "INTERFACE_FAILURE" ->
                    [reading |-> [reading EXCEPT !.valid = FALSE],
                     faults_ |-> faults, slept |-> 0]

\* apply whose INVALID_VALUE case erases the fault
Apply_invalidValueSelfClears(faults, reading) ==
    IF reading.sensor_id \notin DOMAIN faults
    THEN [reading |-> reading, faults_ |-> faults, slept |-> 0]
    ELSE LET id == reading.sensor_id
             fault == faults[id]
         IN  CASE fault.type = "INVALID_VALUE" ->
                    [reading |-> [reading EXCEPT
                                     !.value = fault.params.injected_value],
                     faults_ |-> Erase(faults, id), slept |-> 0]
               [] fault.type = "DELAYED_READING" ->
                    [reading |-> reading, faults_ |-> faults,
                     slept |-> fault.params.delay_ms]
               [] fault.type = "MISSING_UPDATE" ->
                    IF fault.cycles_remaining > 0
                    THEN [reading |-> [reading EXCEPT !.valid = FALSE],
                          faults_ |-> [faults EXCEPT ![id].cycles_remaining
                                                        = @ - 1],
                          slept |-> 0]
                    ELSE [reading |-> reading, faults_ |-> Erase(faults, id),
                          slept |-> 0]
               [] fault.type = "SPIKE" ->
                    [reading |-> [reading EXCEPT
                                     !.value = fault.params.injected_value],
                     faults_ |-> Erase(faults, id), slept |-> 0]
               [] fault.type = "INTERFACE_FAILURE" ->
                    [reading |-> [reading EXCEPT !.valid = FALSE],
                     faults_ |-> faults, slept |-> 0]

\* the table without the faults of other signals that have no cycles left
SweepOthers(faults, sensor_id) ==
    [i \in {j \in DOMAIN faults :
               j = sensor_id \/ faults[j].cycles_remaining > 0} |-> faults[i]]

\* apply whose MISSING_UPDATE case erases the fault in the call that brings
\* cycles_remaining to zero
Apply_missingUpdateClearsAtZero(faults, reading) ==
    IF reading.sensor_id \notin DOMAIN faults
    THEN [reading |-> reading, faults_ |-> faults, slept |-> 0]
    ELSE LET id == reading.sensor_id
             fault == faults[id]
         IN  CASE fault.type = "INVALID_VALUE" ->
                    [reading |-> [reading EXCEPT
                                     !.value = fault.params.injected_value],
                     faults_ |-> faults, slept |-> 0]
               [] fault.type = "DELAYED_READING" ->
                    [reading |-> reading, faults_ |-> faults,
                     slept |-> fault.params.delay_ms]
               [] fault.type = "MISSING_UPDATE" ->
                    IF fault.cycles_remaining > 1
                    THEN [reading |-> [reading EXCEPT !.valid = FALSE],
                          faults_ |-> [faults EXCEPT ![id].cycles_remaining
                                                        = @ - 1],
                          slept |-> 0]
                    ELSE IF fault.cycles_remaining = 1
                    THEN [reading |-> [reading EXCEPT !.valid = FALSE],
                          faults_ |-> Erase(faults, id), slept |-> 0]
                    ELSE [reading |-> reading, faults_ |-> Erase(faults, id),
                          slept |-> 0]
               [] fault.type = "SPIKE" ->
                    [reading |-> [reading EXCEPT
                                     !.value = fault.params.injected_value],
                     faults_ |-> Erase(faults, id), slept |-> 0]
               [] fault.type = "INTERFACE_FAILURE" ->
                    [reading |-> [reading EXCEPT !.valid = FALSE],
                     faults_ |-> faults, slept |-> 0]

\* apply that also sweeps the self-clearing faults of the other signals
Apply_sweepsOtherSignals(faults, reading) ==
    LET swept == SweepOthers(faults, reading.sensor_id)
    IN  IF reading.sensor_id \notin DOMAIN swept
        THEN [reading |-> reading, faults_ |-> swept, slept |-> 0]
        ELSE LET id == reading.sensor_id
                 fault == swept[id]
             IN  CASE fault.type = "INVALID_VALUE" ->
                        [reading |-> [reading EXCEPT
                                         !.value = fault.params.injected_value],
                         faults_ |-> swept, slept |-> 0]
                   [] fault.type = "DELAYED_READING" ->
                        [reading |-> reading, faults_ |-> swept,
                         slept |-> fault.params.delay_ms]
                   [] fault.type = "MISSING_UPDATE" ->
                        IF fault.cycles_remaining > 0
                        THEN [reading |-> [reading EXCEPT !.valid = FALSE],
                              faults_ |-> [swept EXCEPT ![id].cycles_remaining
                                                           = @ - 1],
                              slept |-> 0]
                        ELSE [reading |-> reading,
                              faults_ |-> Erase(swept, id), slept |-> 0]
                   [] fault.type = "SPIKE" ->
                        [reading |-> [reading EXCEPT
                                         !.value = fault.params.injected_value],
                         faults_ |-> Erase(swept, id), slept |-> 0]
                   [] fault.type = "INTERFACE_FAILURE" ->
                        [reading |-> [reading EXCEPT !.valid = FALSE],
                         faults_ |-> swept, slept |-> 0]

\* FaultInjector::apply: the reading it returns, the table it leaves and the
\* time it blocked the caller in sleep_for
Apply(faults, reading) ==
    IF reading.sensor_id \notin DOMAIN faults
    THEN [reading |-> reading, faults_ |-> faults, slept |-> 0]
    ELSE LET id == reading.sensor_id
             fault == faults[id]
         IN  CASE fault.type = "INVALID_VALUE" ->
                    [reading |-> [reading EXCEPT
                                     !.value = fault.params.injected_value],
                     faults_ |-> faults, slept |-> 0]
               [] fault.type = "DELAYED_READING" ->
                    [reading |-> reading, faults_ |-> faults,
                     slept |-> fault.params.delay_ms]
               [] fault.type = "MISSING_UPDATE" ->
                    IF fault.cycles_remaining > 0
                    THEN [reading |-> [reading EXCEPT !.valid = FALSE],
                          faults_ |-> [faults EXCEPT ![id].cycles_remaining
                                                        = @ - 1],
                          slept |-> 0]
                    ELSE [reading |-> reading, faults_ |-> Erase(faults, id),
                          slept |-> 0]
               [] fault.type = "SPIKE" ->
                    [reading |-> [reading EXCEPT
                                     !.value = fault.params.injected_value],
                     faults_ |-> Erase(faults, id), slept |-> 0]
               [] fault.type = "INTERFACE_FAILURE" ->
                    [reading |-> [reading EXCEPT !.valid = FALSE],
                     faults_ |-> faults, slept |-> 0]

(***************************************************************************)
(* sensors/sensor_manager.{h,cpp}.  entries_ is the vector of SensorEntry; *)
(* a sensor is the id and the value its read() reports.                    *)
(***************************************************************************)
\* the stub ISensor of the tests
Sensor(sensor_id, value) == [sensor_id_ |-> sensor_id, value_ |-> value]

\* ISensor::read at instant now
Read(sensor, now) ==
    SensorReading(sensor.sensor_id_, sensor.value_, TRUE, now)

\* SensorManager::register_sensor: last_poll starts as time_point{}
RegisterSensor(es, sensor, interval) ==
    Append(es, [sensor |-> sensor, interval |-> interval, last_poll |-> 0])

\* the loop of SensorManager::poll from entry number i on, readings being
\* what was collected so far
RECURSIVE PollLoop(_, _, _, _)
PollLoop(es, now, i, readings) ==
    IF i > Len(es) THEN [readings |-> readings, entries_ |-> es]
    ELSE LET entry == es[i]
             elapsed == now - entry.last_poll
         IN  IF elapsed >= entry.interval
             THEN PollLoop([es EXCEPT ![i].last_poll = now], now, i + 1,
                           Append(readings, Read(entry.sensor, now)))
             ELSE PollLoop(es, now, i + 1, readings)

\* poll that reads a due sensor without noting when
Poll_lastPollNotStored(es, now) ==
    [readings |-> PollLoop(es, now, 1, <<>>).readings, entries_ |-> es]

\* poll that goes through the entries from the last to the first
Poll_backwards(es, now) ==
    LET n == Len(es)
        reversed == PollLoop([i \in 1..n |-> es[n + 1 - i]], now, 1, <<>>)
    IN  [readings |-> reversed.readings,
         entries_ |-> [i \in 1..n |-> reversed.entries_[n + 1 - i]]]

\* SensorManager::poll when steady_clock::now() returns now: the readings it
\* returns and the entries it leaves
Poll(es, now) == PollLoop(es, now, 1, <<>>)

(***************************************************************************)
(* fault/fault_profile.h, logging/logger.{h,cpp} and the loop of main.cpp. *)
(* The unit of time of the loop is its sleep_for(500ms).  Of a log line    *)
(* the wall-clock "ts" is left out.                                        *)
(***************************************************************************)
\* a FaultConfig as FaultProfile::load returns it
FaultConfig(sensor_id, type, params, trigger_after_s, duration_s) ==
    [sensor_id |-> sensor_id, type |-> type, params |-> params,
     trigger_after_s |-> trigger_after_s, duration_s |-> duration_s,
     triggered |-> FALSE, cleared |-> FALSE, injected_at_s |-> 0]

\* the line Logger::log_fault writes
LogFault(sensor_id, fault_type, injected_value) ==
    [type |-> "fault", sensor |-> sensor_id, fault_type |-> fault_type,
     injected_value |-> injected_value]

\* the line Logger::log_reading writes
LogReading(reading) ==
    [type |-> "reading", sensor |-> reading.sensor_id,
     value |-> reading.value, valid |-> reading.valid]

\* the line Logger::log_transition writes
LogTransition(transition) ==
    [type |-> "transition", sensor |-> transition.sensor_id,
     from |-> transition.from, to |-> transition.to,
     reason |-> transition.reason]

\* a duration_s of a fault profile that is above zero and below the step of
\* the doubles from one loop period on
TinyDuration == 1

\* std::chrono::duration<double>(now - start_time).count()
Seconds(periods) == periods * Grain

\* the double x + y: the sum rounded to the format, so that a y far below
\* the step of the format at x is absorbed
DoubleSum(x, y) ==
    IF x + y < Grain THEN x + y ELSE ((x + y) \div Grain) * Grain

\* CheckFaults_loop without the test of fc.triggered
RECURSIVE CheckFaults_refires(_, _, _, _, _, _)
CheckFaults_refires(configs, i, faults, events, calls, elapsed_s) ==
    IF i > Len(configs)
    THEN [fault_configs |-> configs, injector |-> faults, events |-> events,
          calls |-> calls]
    ELSE LET fc == configs[i]
             fire == elapsed_s >= fc.trigger_after_s
             fc1 == IF fire
                    THEN [fc EXCEPT !.triggered = TRUE,
                                    !.injected_at_s = elapsed_s]
                    ELSE fc
             faults1 == IF fire
                        THEN Inject(faults, fc.sensor_id, fc.type, fc.params)
                        ELSE faults
             events1 == IF fire
                        THEN Append(events,
                                    LogFault(fc.sensor_id, fc.type,
                                             fc.params.injected_value))
                        ELSE events
             calls1 == IF fire
                       THEN Append(calls, [op |-> "inject", config |-> i])
                       ELSE calls
             expire == /\ fc1.triggered
                       /\ ~fc1.cleared
                       /\ fc1.duration_s > 0
                       /\ elapsed_s >= DoubleSum(fc1.injected_at_s,
                                                 fc1.duration_s)
             fc2 == IF expire THEN [fc1 EXCEPT !.cleared = TRUE] ELSE fc1
             faults2 == IF expire THEN Clear(faults1, fc.sensor_id)
                        ELSE faults1
             calls2 == IF expire
                       THEN Append(calls1, [op |-> "clear", config |-> i])
                       ELSE calls1
         IN  CheckFaults_refires([configs EXCEPT ![i] = fc2], i + 1, faults2,
                                 events1, calls2, elapsed_s)

\* CheckFaults_loop without the test of fc.cleared
RECURSIVE CheckFaults_reclears(_, _, _, _, _, _)
CheckFaults_reclears(configs, i, faults, events, calls, elapsed_s) ==
    IF i > Len(configs)
    THEN [fault_configs |-> configs, injector |-> faults, events |-> events,
          calls |-> calls]
    ELSE LET fc == configs[i]
             fire == ~fc.triggered /\ elapsed_s >= fc.trigger_after_s
             fc1 == IF fire
                    THEN [fc EXCEPT !.triggered = TRUE,
                                    !.injected_at_s = elapsed_s]
                    ELSE fc
             faults1 == IF fire
                        THEN Inject(faults, fc.sensor_id, fc.type, fc.params)
                        ELSE faults
             events1 == IF fire
                        THEN Append(events,
                                    LogFault(fc.sensor_id, fc.type,
                                             fc.params.injected_value))
                        ELSE events
             calls1 == IF fire
                       THEN Append(calls, [op |-> "inject", config |-> i])
                       ELSE calls
             expire == /\ fc1.triggered
                       /\ fc1.duration_s > 0
                       /\ elapsed_s >= DoubleSum(fc1.injected_at_s,
                                                 fc1.duration_s)
             fc2 == IF expire THEN [fc1 EXCEPT !.cleared = TRUE] ELSE fc1
             faults2 == IF expire THEN Clear(faults1, fc.sensor_id)
                        ELSE faults1
             calls2 == IF expire
                       THEN Append(calls1, [op |-> "clear", config |-> i])
                       ELSE calls1
         IN  CheckFaults_reclears([configs EXCEPT ![i] = fc2], i + 1, faults2,
                                  events1, calls2, elapsed_s)

\* the loop over fault_configs from config number i on: inject when the
\* trigger time is reached, clear when the duration has expired; calls
\* lists the calls made on the injector
RECURSIVE CheckFaults_loop(_, _, _, _, _, _)
CheckFaults_loop(configs, i, faults, events, calls, elapsed_s) ==
    IF i > Len(configs)
    THEN [fault_configs |-> configs, injector |-> faults, events |-> events,
          calls |-> calls]
    ELSE LET fc == configs[i]
             fire == ~fc.triggered /\ elapsed_s >= fc.trigger_after_s
             fc1 == IF fire
                    THEN [fc EXCEPT !.triggered = TRUE,
                                    !.injected_at_s = elapsed_s]
                    ELSE fc
             faults1 == IF fire
                        THEN Inject(faults, fc.sensor_id, fc.type, fc.params)
                        ELSE faults
             events1 == IF fire
                        THEN Append(events,
                                    LogFault(fc.sensor_id, fc.type,
                                             fc.params.injected_value))
                        ELSE events
             calls1 == IF fire
                       THEN Append(calls, [op |-> "inject", config |-> i])
                       ELSE calls
             expire == /\ fc1.triggered
                       /\ ~fc1.cleared
                       /\ fc1.duration_s > 0
                       /\ elapsed_s >= DoubleSum(fc1.injected_at_s,
                                                 fc1.duration_s)
             fc2 == IF expire THEN [fc1 EXCEPT !.cleared = TRUE] ELSE fc1
             faults2 == IF expire THEN Clear(faults1, fc.sensor_id)
                        ELSE faults1
             calls2 == IF expire
                       THEN Append(calls1, [op |-> "clear", config |-> i])
                       ELSE calls1
         IN  CheckFaults_loop([configs EXCEPT ![i] = fc2], i + 1, faults2,
                              events1, calls2, elapsed_s)

\* the loop over all of fault_configs at elapsed_s
CheckFaults(configs, faults, elapsed_s) ==
    CheckFaults_loop(configs, 1, faults, <<>>, <<>>, elapsed_s)

\* a loop that leaves the readings as they are
ApplyLoop_skipped(faults, readings, i, slept) ==
    [readings |-> readings, injector |-> faults, slept |-> slept]

\* the loop reading = injector.apply(reading) from reading number i on;
\* slept adds up the time apply blocked
RECURSIVE ApplyLoop(_, _, _, _)
ApplyLoop(faults, readings, i, slept) ==
    IF i > Len(readings)
    THEN [readings |-> readings, injector |-> faults, slept |-> slept]
    ELSE LET result == Apply(faults, readings[i])
         IN  ApplyLoop(result.faults_,
                       [readings EXCEPT ![i] = result.reading],
                       i + 1, slept + result.slept)

\* LogNewTransitions starting at the head of the list
LogNewTransitions_fromStart(e, prev_transition_count) ==
    [i \in 1..Len(e.transitions_) |-> LogTransition(e.transitions_[i])]

\* the loop logging the transitions appended since prev_transition_count
LogNewTransitions(e, prev_transition_count) ==
    [i \in 1..(Len(e.transitions_) - prev_transition_count) |->
        LogTransition(e.transitions_[prev_transition_count + i])]

(***************************************************************************)
(* Inputs                                                                  *)
(***************************************************************************)
\* the readings a caller can hand over at instant now: a valid reading with
\* one of the values, or an invalid one (value 0.0: no code path reads the
\* value of an invalid reading before the fault stage), produced at some
\* instant up to now
ReadingsAt(now) ==
    {SensorReading(id, v, TRUE, ts) : id \in Ids, v \in Values, ts \in 0..now}
    \cup {SensorReading(id, 0, FALSE, ts) : id \in Ids, ts \in 0..now}

\* the batches a process() call can be given at instant now
BatchesAt(now) ==
    UNION {[1..n -> ReadingsAt(now)] : n \in 0..MaxBatch}

\* the rules add_rule is called with: ThresholdRule(0.0, 0.95) on every
\* signal, ImplausibleValueRule(-1.0, 200.0), RateOfChangeRule(0.25) and
\* MissingDataRule(0, 1)
RuleUniverse ==
    {ThresholdRule(0, 95, "DEGRADED", ""),
     ImplausibleValueRule(-100, 20000),
     RateOfChangeRule(25),
     MissingDataRule(0, 1)}

\* the signal ids of a batch
IdsOf(readings) == {readings[i].sensor_id : i \in 1..Len(readings)}

\* the last reading of a batch with this id
LastOf(readings, id) ==
    readings[CHOOSE i \in 1..Len(readings) :
                /\ readings[i].sensor_id = id
                /\ \A j \in (i + 1)..Len(readings) : readings[j].sensor_id # id]

(***************************************************************************)
(* The stand-alone MeasurementWindow: a window of any capacity, pushed to  *)
(***************************************************************************)
WindowIdle ==
    /\ window = MeasurementWindow(1)
    /\ pushed = [id \in Ids |-> <<>>]
    /\ window_crashed = FALSE

EngineIdle ==
    /\ engine = Engine(1)
    /\ clock = 0
    /\ consumed = {}
    /\ last_valid = [id \in Ids |-> FALSE]
    /\ nprocessed = 0
    /\ engine_crashed = FALSE

DetIdle ==
    /\ engineA = Engine(1)
    /\ engineB = Engine(1)
    /\ clockA = 0
    /\ clockB = 0
    /\ nfed = 0

\* no inject yet on a signal
NeverInjected ==
    [type |-> "NONE", params |-> FaultParameters(0, 0, 0), applies |-> 0,
     cleared |-> FALSE, replaced |-> FALSE]

FaultIdle ==
    /\ injector = <<>>
    /\ injected = [id \in Ids |-> NeverInjected]
    /\ applied = [id \in Ids |-> <<>>]
    /\ nops = 0

PipeIdle ==
    /\ pipe_engine = Engine(1)
    /\ pipe_injector = <<>>
    /\ pipe_clock = 0
    /\ pipe_hist = [id \in Ids |-> <<>>]

PollIdle ==
    /\ entries = <<>>
    /\ poll_clock = 0
    /\ poll_log = <<>>
    /\ registered_at = <<>>

\* nothing logged in a tick
NoTick ==
    [events |-> <<>>, fired |-> <<>>, polled |-> <<>>, out |-> <<>>,
     before |-> 0, elapsed_s |-> 0, calls |-> <<>>, injector |-> <<>>,
     appended |-> <<>>, active |-> <<>>, states |-> <<>>]

SupIdle ==
    /\ sup_fault_configs = <<>>
    /\ sup_injector = <<>>
    /\ sup_sensor_mgr = <<>>
    /\ sup_engine = Engine(1)
    /\ sup_prev_transition_count = 0
    /\ sup_start_time = 0
    /\ sup_now = 0
    /\ sup_tick = NoTick
    /\ sup_nticks = 0
    /\ sup_log = <<>>
    /\ running = 1
    /\ sup_pc = "test"
    /\ sup_exit = <<>>
    /\ sup_stop = <<>>

\* the threads that call the logger
Threads == {"t1", "t2"}

\* a closed std::ofstream
ClosedFile == [is_open |-> FALSE, good |-> TRUE, content |-> <<>>]

LogIdle ==
    /\ file_ = ClosedFile
    /\ cout = <<>>
    /\ mutex_ = "free"
    /\ log_pc = [t \in Threads |-> "idle"]
    /\ log_json = [t \in Threads |-> <<>>]
    /\ log_calls = [t \in Threads |-> <<>>]

StartIdle ==
    /\ start_argv = <<>>
    /\ start_files = <<>>
    /\ start_pc = "idle"
    /\ start_args = <<>>
    /\ start_log_open = FALSE
    /\ start_nticks = 0
    /\ start_lines = 0
    /\ start_exit = <<>>

\* the watchdog fields of a freshly constructed AppDelegate
WdIdle ==
    /\ restartAttempts = 0
    /\ backoffDelay = 1
    /\ coreError = "nil"
    /\ aggregateLabel = "UNKNOWN"
    /\ watchdogTimer = FALSE
    /\ coreProcess = "nil"
    /\ lastDataTimestamp = 0
    /\ wd_clock = 0
    /\ wd_pending = <<>>
    /\ wd_main_pc = "constructed"
    /\ wd_register = 0
    /\ wd_line_pc = "idle"
    /\ wd_consecutive = 0
    /\ wd_rank = 0
    /\ wd_manual = 0

\* no rule under evaluation
RuleIdle ==
    /\ rule_under = <<>>
    /\ rule_window = MeasurementWindow(1)
    /\ rule_clock = 0
    /\ rule_npushed = 0
    /\ rule_eval = <<>>

\* no pair of runs under comparison
IsoIdle ==
    /\ iso_injector = <<>>
    /\ iso_faulted = Engine(1)
    /\ iso_clean = Engine(1)
    /\ iso_now_faulted = 0
    /\ iso_now_clean = 0
    /\ iso_nticks = 0

LaterIdle == PipeIdle /\ PollIdle /\ SupIdle /\ LogIdle /\ StartIdle /\ WdIdle
    /\ RuleIdle /\ IsoIdle

WindowInit ==
    /\ \E capacity \in 0..MaxCap : window = MeasurementWindow(capacity)
    /\ pushed = [id \in Ids |-> <<>>]
    /\ window_crashed = FALSE
    /\ EngineIdle /\ DetIdle /\ FaultIdle /\ LaterIdle

\* the number of push calls so far; it stands for the instant of the push
NPushed ==
    Cardinality(UNION {{<<id, i>> : i \in 1..Len(pushed[id])} : id \in Ids})

\* window.push(reading) on a window of capacity >= 1; pushed is the history
\* of the readings given to push, per signal
WindowPush(id, value, valid) ==
    /\ ~window_crashed
    /\ ~PushIsUndefined(window)
    /\ NPushed < MaxPush
    /\ LET reading == SensorReading(id, value, valid, NPushed)
       IN  /\ window' = Push(window, reading)
           /\ pushed' = [pushed EXCEPT ![id] = Append(@, reading)]
    /\ UNCHANGED <<window_crashed, engineVars, detVars, faultVars, laterVars>>

\* window.push(reading) on a window of capacity 0: the remainder by zero
\* traps, or yields a garbage index into the empty vector and the store
\* faults; either way the process dies inside push
WindowPushUndefined ==
    /\ ~window_crashed
    /\ PushIsUndefined(window)
    /\ window_crashed' = TRUE
    /\ UNCHANGED <<window, pushed, engineVars, detVars, faultVars, laterVars>>

WindowNext ==
    \/ \E id \in Ids, value \in Values, valid \in BOOLEAN :
          WindowPush(id, value, valid)
    \/ WindowPushUndefined

WindowSpec == WindowInit /\ [][WindowNext]_vars

(***************************************************************************)
(* The Engine: constructed with any capacity, rules added, batches         *)
(* processed while the clock advances                                      *)
(***************************************************************************)
Init ==
    /\ \E capacity \in 0..MaxCap : engine = Engine(capacity)
    /\ clock = 0
    /\ consumed = {}
    /\ last_valid = [id \in Ids |-> FALSE]
    /\ nprocessed = 0
    /\ engine_crashed = FALSE
    /\ WindowIdle /\ DetIdle /\ FaultIdle /\ LaterIdle

\* engine.add_rule(rule)
AddRule(rule) ==
    /\ ~engine_crashed
    /\ Len(engine.rules_) < MaxRules
    /\ engine' = AddRuleTo(engine, rule)
    /\ UNCHANGED <<clock, consumed, last_valid, nprocessed, engine_crashed,
                   windowVars, detVars, faultVars, laterVars>>

\* engine.process(readings) at instant now, the steady clock having advanced
\* from clock to now since the previous call.  consumed, last_valid and
\* nprocessed record the inputs: the ids seen so far, the validity of the
\* last reading of each id, and the number of readings.
ProcessBatch(now) ==
    /\ ~engine_crashed
    /\ \E readings \in BatchesAt(now) :
          /\ readings = <<>> \/ ~PushIsUndefined(engine.window_)
          /\ nprocessed + Len(readings) <= MaxSamples
          /\ clock' = now
          /\ engine' = Process(engine, readings, now)
          /\ consumed' = consumed \cup IdsOf(readings)
          /\ last_valid' = [id \in Ids |->
                               IF id \in IdsOf(readings)
                               THEN LastOf(readings, id).valid
                               ELSE last_valid[id]]
          /\ nprocessed' = nprocessed + Len(readings)
    /\ UNCHANGED <<engine_crashed, windowVars, detVars, faultVars, laterVars>>

\* engine.process(readings) of a non-empty batch on a window of capacity 0:
\* the first push is undefined behaviour and the process dies in it
ProcessUndefined ==
    /\ ~engine_crashed
    /\ PushIsUndefined(engine.window_)
    /\ engine_crashed' = TRUE
    /\ UNCHANGED <<engine, clock, consumed, last_valid, nprocessed,
                   windowVars, detVars, faultVars, laterVars>>

Next ==
    \/ \E rule \in RuleUniverse : AddRule(rule)
    \/ \E now \in clock..MaxClock : ProcessBatch(now)
    \/ ProcessUndefined

Spec == Init /\ [][Next]_vars

(***************************************************************************)
(* Properties of the MeasurementWindow (WindowSpec)                        *)
(***************************************************************************)
\* the last n elements of a sequence
LastN(seq, n) == SubSeq(seq, Len(seq) - n + 1, Len(seq))

Min(x, y) == IF x <= y THEN x ELSE y

\* C7: on a window of capacity c >= 1, after any sequence of pushes,
\* readings_for(id) never returns more than c samples, for every signal id.
C7_ReadingsBoundedByCapacity ==
    window.capacity_ >= 1 =>
        \A id \in Ids : Len(ReadingsFor(window, id)) <= window.capacity_

\* a signal has been pushed more often than the capacity: its ring wrapped
C7_Witness ==
    /\ window.capacity_ >= 1
    /\ \E id \in Ids :
          /\ Len(pushed[id]) > window.capacity_
          /\ Len(ReadingsFor(window, id)) = window.capacity_

\* C8: on a window of capacity c >= 1, after pushes s1..sn of one id,
\* interleaved with pushes of other ids, readings_for(id) is exactly the last
\* min(n, c) of them, oldest first, and latest(id) is sn; invalid samples are
\* retained like valid ones.
C8_ReadingsAreTheLastPushed ==
    window.capacity_ >= 1 =>
        \A id \in Ids :
            /\ ReadingsFor(window, id)
                  = LastN(pushed[id], Min(Len(pushed[id]), window.capacity_))
            /\ pushed[id] # <<>> =>
                  Latest(window, id) = pushed[id][Len(pushed[id])]

\* a ring of capacity >= 2 has wrapped while the other signal was pushed too,
\* and it retains an invalid sample
C8_Witness ==
    /\ window.capacity_ >= 2
    /\ \E id \in Ids :
          /\ Len(pushed[id]) > window.capacity_
          /\ \E other \in Ids \ {id} : pushed[other] # <<>>
          /\ \E i \in 1..Len(ReadingsFor(window, id)) :
                ~ReadingsFor(window, id)[i].valid

\* C9: a MeasurementWindow of capacity 0 is rejected at construction: no
\* window of capacity 0 exists, and push never runs against one.
C9_ZeroCapacityRejected ==
    /\ window.capacity_ # 0
    /\ ~window_crashed

(***************************************************************************)
(* Properties of the Engine (Spec)                                         *)
(***************************************************************************)
\* the engine can take a reading: it is alive and its push is defined
CanProcess == ~engine_crashed /\ ~PushIsUndefined(engine.window_)

\* C1: once process() has consumed a sample of a signal, sensor_state(id) is
\* never UNKNOWN again, and no transition into UNKNOWN is ever appended.
C1_NeverUnknownAgain ==
    /\ \A id \in consumed : SensorStateOf(engine, id) # "UNKNOWN"
    /\ \A i \in 1..Len(engine.transitions_) :
          engine.transitions_[i].to # "UNKNOWN"

\* two samples have been consumed and a transition has been appended
C1_Witness ==
    /\ nprocessed >= 2
    /\ consumed # {}
    /\ engine.transitions_ # <<>>

\* C2: for every sample process() handles, a transition is appended iff the
\* newly evaluated state of its signal differs from the stored one; then
\* exactly one record is appended, from the old state to the new one; a
\* sample that leaves the state unchanged appends nothing.  Stated of one
\* iteration of the loop of process(), from every reachable engine.
C2_TransitionIffChange ==
    CanProcess =>
        \A now \in clock..MaxClock : \A reading \in ReadingsAt(now) :
            LET id == reading.sensor_id
                old == SensorStateOf(engine, id)
                after == ProcessOne(engine, reading, now)
                new == SensorStateOf(after, id)
                n == Len(engine.transitions_)
            IN  IF new # old
                THEN /\ Len(after.transitions_) = n + 1
                     /\ SubSeq(after.transitions_, 1, n) = engine.transitions_
                     /\ after.transitions_[n + 1].sensor_id = id
                     /\ after.transitions_[n + 1].from = old
                     /\ after.transitions_[n + 1].to = new
                ELSE after.transitions_ = engine.transitions_

\* the engine has handled a sample that changed a state and one that did not
C2_Witness ==
    /\ nprocessed = 2
    /\ Len(engine.transitions_) = 1

\* the greater of two severities, OK < DEGRADED < FAILED
MaxSeverity(s, t) ==
    IF s = "FAILED" \/ t = "FAILED" THEN "FAILED"
    ELSE IF s = "DEGRADED" \/ t = "DEGRADED" THEN "DEGRADED"
    ELSE "OK"

\* the greatest severity among the results of all the rules of an engine
RECURSIVE WorstOfRules(_, _, _, _)
WorstOfRules(e, sensor_id, now, i) ==
    IF i > Len(e.rules_) THEN "OK"
    ELSE MaxSeverity(Evaluate(e.rules_[i], e.window_, sensor_id, now),
                     WorstOfRules(e, sensor_id, now, i + 1))

\* C3: for a signal whose latest sample is valid, the state process()
\* assigns is the maximum severity over the results of all registered rules,
\* whatever their order.  Stated of one iteration of the loop of process().
C3_StateIsMaxSeverity ==
    CanProcess =>
        \A now \in clock..MaxClock : \A reading \in ReadingsAt(now) :
            reading.valid =>
                LET after == ProcessOne(engine, reading, now)
                IN  SensorStateOf(after, reading.sensor_id)
                       = WorstOfRules(after, reading.sensor_id, now, 1)

\* C4: whenever the latest sample of a signal is invalid, process() leaves
\* the signal FAILED, whatever the rules and the previous state.
C4_InvalidIsFailed ==
    \A id \in consumed :
        ~last_valid[id] => SensorStateOf(engine, id) = "FAILED"

\* an invalid sample took a signal from OK to FAILED with a rule registered
C4_Witness ==
    /\ engine.rules_ # <<>>
    /\ \E id \in consumed :
          /\ ~last_valid[id]
          /\ \E i \in 1..Len(engine.transitions_) :
                /\ engine.transitions_[i].sensor_id = id
                /\ engine.transitions_[i].from = "OK"
                /\ engine.transitions_[i].to = "FAILED"

\* worst-wins over the known signals: FAILED > UNKNOWN > DEGRADED > OK
WorstWins(states) ==
    IF DOMAIN states = {} THEN "UNKNOWN"
    ELSE IF \E id \in DOMAIN states : states[id] = "FAILED" THEN "FAILED"
    ELSE IF \E id \in DOMAIN states : states[id] = "UNKNOWN" THEN "UNKNOWN"
    ELSE IF \E id \in DOMAIN states : states[id] = "DEGRADED" THEN "DEGRADED"
    ELSE "OK"

\* C5: aggregate_state() is worst-wins, FAILED > UNKNOWN > DEGRADED > OK,
\* over the known signals, UNKNOWN with no known signal, in whatever order
\* the signal map is iterated.
C5_AggregateIsWorstWins ==
    \A order \in IterationOrders(DOMAIN engine.sensor_states_) :
        AggregateState(engine, order) = WorstWins(engine.sensor_states_)

\* two known signals, one DEGRADED and one OK
C5_Witness ==
    /\ DOMAIN engine.sensor_states_ = Ids
    /\ \E id \in Ids : engine.sensor_states_[id] = "DEGRADED"
    /\ \E id \in Ids : engine.sensor_states_[id] = "OK"

(***************************************************************************)
(* Two engines with the same rules, fed the same batches, each at its own  *)
(* instants (DetSpec)                                                      *)
(***************************************************************************)
DetInit ==
    /\ \E capacity \in 1..MaxCap :
          /\ engineA = Engine(capacity)
          /\ engineB = Engine(capacity)
    /\ clockA = 0
    /\ clockB = 0
    /\ nfed = 0
    /\ WindowIdle /\ EngineIdle /\ FaultIdle /\ LaterIdle

\* add_rule(rule) on both engines
DetAddRule(rule) ==
    /\ Len(engineA.rules_) < MaxRules
    /\ engineA' = AddRuleTo(engineA, rule)
    /\ engineB' = AddRuleTo(engineB, rule)
    /\ UNCHANGED <<clockA, clockB, nfed, windowVars, engineVars, faultVars,
                   laterVars>>

\* process(readings) on both engines, on the first at instant nowA and on
\* the second at instant nowB, the readings having been produced by then
DetProcess(nowA, nowB) ==
    /\ \E readings \in BatchesAt(Min(nowA, nowB)) :
          /\ nfed + Len(readings) <= MaxSamples
          /\ engineA' = Process(engineA, readings, nowA)
          /\ engineB' = Process(engineB, readings, nowB)
          /\ nfed' = nfed + Len(readings)
    /\ clockA' = nowA
    /\ clockB' = nowB
    /\ UNCHANGED <<windowVars, engineVars, faultVars, laterVars>>

DetNext ==
    \/ \E rule \in RuleUniverse : DetAddRule(rule)
    \/ \E nowA \in clockA..MaxClock, nowB \in clockB..MaxClock :
          DetProcess(nowA, nowB)

DetSpec == DetInit /\ [][DetNext]_vars

\* a transition without its timestamp
Edge(t) == [sensor_id |-> t.sensor_id, from |-> t.from, to |-> t.to]

\* C6: two engines with the same rule list, fed the same sequence of
\* batches, end with the same per-signal states, the same aggregate state
\* and the same sequence of transitions (signal, from, to), whenever
\* process() is called on each.
C6_SameInputsSameResults ==
    /\ engineA.sensor_states_ = engineB.sensor_states_
    /\ \A order \in IterationOrders(DOMAIN engineA.sensor_states_) :
          DOMAIN engineB.sensor_states_ = DOMAIN engineA.sensor_states_ =>
              AggregateState(engineA, order) = AggregateState(engineB, order)
    /\ Len(engineA.transitions_) = Len(engineB.transitions_)
    /\ \A i \in 1..Min(Len(engineA.transitions_), Len(engineB.transitions_)) :
          Edge(engineA.transitions_[i]) = Edge(engineB.transitions_[i])

(***************************************************************************)
(* The stand-alone FaultInjector (FaultSpec)                               *)
(***************************************************************************)
\* the injected value of the tests, 999.0
InjectedValues == {99900}

\* the delay of a DELAYED_READING fault, in clock instants
Delays == {1}

\* what inject is called with: a kind and the parameter that kind reads,
\* the other parameters at their defaults
FaultInputs ==
    {<<type, FaultParameters(v, 0, 0)>> :
        type \in {"INVALID_VALUE", "SPIKE"}, v \in InjectedValues}
    \cup {<<"MISSING_UPDATE", FaultParameters(0, k, 0)>> : k \in 0..MaxSuppress}
    \cup {<<"DELAYED_READING", FaultParameters(0, 0, d)>> : d \in Delays}
    \cup {<<"INTERFACE_FAILURE", FaultParameters(0, 0, 0)>>}

FaultInit ==
    /\ injector = <<>>
    /\ injected = [id \in Ids |-> NeverInjected]
    /\ applied = [id \in Ids |-> <<>>]
    /\ nops = 0
    /\ WindowIdle /\ EngineIdle /\ DetIdle /\ LaterIdle

\* injector.inject(id, type, params); injected records the latest inject of
\* each signal, the number of applies of that signal since, whether a
\* clear hit it since, and whether it found a fault of the signal in place
FaultInject(id, type, params) ==
    /\ nops < MaxOps
    /\ injector' = Inject(injector, id, type, params)
    /\ injected' = [injected EXCEPT ![id] =
                       [type |-> type, params |-> params, applies |-> 0,
                        cleared |-> FALSE,
                        replaced |-> HasFault(injector, id)]]
    /\ nops' = nops + 1
    /\ UNCHANGED <<applied, windowVars, engineVars, detVars, laterVars>>

\* injector.clear(id)
FaultClear(id) ==
    /\ nops < MaxOps
    /\ injector' = Clear(injector, id)
    /\ injected' = [injected EXCEPT ![id].cleared = TRUE]
    /\ nops' = nops + 1
    /\ UNCHANGED <<applied, windowVars, engineVars, detVars, laterVars>>

\* injector.clear_all()
FaultClearAll ==
    /\ nops < MaxOps
    /\ injector' = ClearAll(injector)
    /\ injected' = [id \in Ids |-> [injected[id] EXCEPT !.cleared = TRUE]]
    /\ nops' = nops + 1
    /\ UNCHANGED <<applied, windowVars, engineVars, detVars, laterVars>>

\* injector.apply(reading); applied records the input and the output of the
\* latest apply of each signal
FaultApply(id, value, valid) ==
    /\ nops < MaxOps
    /\ LET reading == SensorReading(id, value, valid, nops)
           result == Apply(injector, reading)
       IN  /\ injector' = result.faults_
           /\ applied' = [applied EXCEPT ![id] =
                             [input |-> reading, output |-> result.reading]]
    /\ injected' = [injected EXCEPT ![id].applies = @ + 1]
    /\ nops' = nops + 1
    /\ UNCHANGED <<windowVars, engineVars, detVars, laterVars>>

FaultNext ==
    \/ \E id \in Ids, input \in FaultInputs : FaultInject(id, input[1], input[2])
    \/ \E id \in Ids : FaultClear(id)
    \/ FaultClearAll
    \/ \E id \in Ids, valid \in BOOLEAN : FaultApply(id, 50, valid)

FaultSpec == FaultInit /\ [][FaultNext]_vars

\* C10: Spike is one-shot.  After inject(id, Spike, v) the first apply of a
\* sample of id returns it with value v and validity unchanged, has_fault(id)
\* is false from then on, and every later apply of id returns its input
\* unchanged, until a new inject.
C10_SpikeIsOneShot ==
    \A id \in Ids :
        LET h == injected[id]
        IN  h.type = "SPIKE" =>
               /\ h.applies >= 1 => ~HasFault(injector, id)
               /\ (h.applies = 1 /\ ~h.cleared) =>
                     applied[id].output =
                        [applied[id].input EXCEPT
                            !.value = h.params.injected_value]
               /\ h.applies >= 2 => applied[id].output = applied[id].input

\* a Spike has been injected and two samples of its signal applied since
C10_Witness ==
    \E id \in Ids :
        /\ injected[id].type = "SPIKE"
        /\ ~injected[id].cleared
        /\ injected[id].applies = 2
        /\ applied[id].output = applied[id].input

\* C11: MissingUpdate suppresses exactly k samples.  After
\* inject(id, MissingUpdate, suppress_cycles = k), with no clear in between,
\* each of the next k applies of a sample of id returns it with valid = false
\* and nothing else changed, and the (k+1)-th apply and every later one, until
\* a new inject, returns its input unchanged.
C11_MissingUpdateSuppressesK ==
    \A id \in Ids :
        LET h == injected[id]
            k == h.params.suppress_cycles
        IN  (h.type = "MISSING_UPDATE" /\ ~h.cleared) =>
               /\ h.applies \in 1..k =>
                     applied[id].output =
                        [applied[id].input EXCEPT !.valid = FALSE]
               /\ h.applies > k => applied[id].output = applied[id].input

\* a MissingUpdate of two cycles has suppressed two samples, and the fourth
\* sample, a valid one, has come back unchanged
C11_Witness ==
    \E id \in Ids :
        /\ injected[id].type = "MISSING_UPDATE"
        /\ ~injected[id].cleared
        /\ injected[id].params.suppress_cycles = 2
        /\ injected[id].applies = 4
        /\ applied[id].input.valid
        /\ applied[id].output = applied[id].input

\* C12: without inject the fault stage is the identity.  As long as no
\* inject has been called, whatever apply, clear, clear_all and has_fault
\* calls were made, every apply returned its sample unchanged (id, value,
\* validity, timestamp), the next apply of any sample does so too, and
\* has_fault is false for every id.
C12_NoInjectNoEffect ==
    (\A id \in Ids : injected[id].type = "NONE") =>
        \A id \in Ids :
            /\ ~HasFault(injector, id)
            /\ applied[id] # <<>> => applied[id].output = applied[id].input
            /\ \A valid \in BOOLEAN :
                  LET s == SensorReading(id, 50, valid, nops)
                  IN  Apply(injector, s).reading = s

\* no inject so far, but a clear and then an apply of a valid sample
C12_Witness ==
    /\ \A id \in Ids : injected[id].type = "NONE"
    /\ \E id \in Ids :
          /\ injected[id].cleared
          /\ applied[id] # <<>>
          /\ applied[id].input.valid
          /\ applied[id].input.timestamp = nops - 1
          /\ nops >= 2

\* whether the latest inject of a signal, with the applies and clears since,
\* leaves a fault active
StillActive(h) ==
    /\ h.type # "NONE"
    /\ ~h.cleared
    /\ h.type = "SPIKE" => h.applies = 0
    /\ h.type = "MISSING_UPDATE" => h.applies <= h.params.suppress_cycles

\* the ActiveFault the latest inject of a signal leaves after the applies
\* since, had the table been empty when it was made
FaultOfLatestInject(h) ==
    [type |-> h.type, params |-> h.params,
     cycles_remaining |->
        IF h.type = "MISSING_UPDATE"
        THEN h.params.suppress_cycles - h.applies
        ELSE h.params.suppress_cycles]

\* C13: one fault per signal, and inject replaces.  The table holds at most
\* one fault per signal id, and the fault of a signal is the one its latest
\* inject alone would have left: same kind and parameters, and a
\* remaining-cycle count that started at that inject's suppress_cycles;
\* nothing of an earlier fault of the signal survives.
C13_OnlyLatestInjectCounts ==
    /\ DOMAIN injector = {id \in Ids : StillActive(injected[id])}
    /\ \A id \in DOMAIN injector :
          injector[id] = FaultOfLatestInject(injected[id])

\* a fault that had invalidated a valid sample was still in place when its
\* signal was given a MissingUpdate of two cycles, which now has both cycles
\* left
C13_Witness ==
    \E id \in Ids :
        /\ injected[id].type = "MISSING_UPDATE"
        /\ injected[id].params.suppress_cycles = 2
        /\ injected[id].replaced
        /\ injected[id].applies = 0
        /\ applied[id] # <<>>
        /\ applied[id].input.valid
        /\ ~applied[id].output.valid
        /\ HasFault(injector, id)
        /\ injector[id].cycles_remaining = 2

\* C14: InvalidValue and InterfaceFailure do not self-clear.  After an
\* inject of one of these kinds, and until clear, clear_all or a new inject
\* of the signal, has_fault(id) is true however many samples were applied,
\* and every apply of the signal returns the sample with its value replaced
\* by injected_value (InvalidValue) or with valid = false (InterfaceFailure).
C14_PersistentFaultsStay ==
    \A id \in Ids :
        LET h == injected[id]
        IN  (h.type \in {"INVALID_VALUE", "INTERFACE_FAILURE"} /\ ~h.cleared) =>
               /\ HasFault(injector, id)
               /\ h.applies >= 1 =>
                     applied[id].output =
                        IF h.type = "INVALID_VALUE"
                        THEN [applied[id].input EXCEPT
                                 !.value = h.params.injected_value]
                        ELSE [applied[id].input EXCEPT !.valid = FALSE]

\* an InvalidValue fault has replaced the value of four samples in a row
C14_Witness ==
    \E id \in Ids :
        /\ injected[id].type = "INVALID_VALUE"
        /\ ~injected[id].cleared
        /\ injected[id].applies = 4
        /\ applied[id].output.value = injected[id].params.injected_value
        /\ applied[id].output.value # applied[id].input.value

\* C15: clear removes one fault, clear_all removes all.  clear(id) leaves no
\* fault on id and every other signal's fault as it was (so it changes
\* nothing when id has no fault), clear_all() leaves no fault at all, and
\* once a signal was cleared apply returns its samples unchanged until the
\* signal is injected again.
C15_ClearRemovesOnlyThatFault ==
    /\ \A id \in Ids :
          LET after == Clear(injector, id)
          IN  /\ ~HasFault(after, id)
              /\ \A other \in Ids \ {id} :
                    /\ HasFault(after, other) = HasFault(injector, other)
                    /\ HasFault(injector, other) =>
                          after[other] = injector[other]
              /\ ~HasFault(injector, id) => after = injector
    /\ \A id \in Ids : ~HasFault(ClearAll(injector), id)
    /\ \A id \in Ids :
          injected[id].cleared =>
             /\ ~HasFault(injector, id)
             /\ \A valid \in BOOLEAN :
                   LET s == SensorReading(id, 50, valid, nops)
                   IN  Apply(injector, s).reading = s

\* two signals carry a fault that does not self-clear, one of them was
\* cleared and a valid sample of it came back unchanged, the other still
\* has its fault
C15_Witness ==
    \E id \in Ids, other \in Ids :
        /\ id # other
        /\ injected[id].type = "INVALID_VALUE"
        /\ injected[id].cleared
        /\ injected[id].applies >= 1
        /\ applied[id].input.valid
        /\ applied[id].output = applied[id].input
        /\ HasFault(injector, other)
        /\ injector[other].type = "INTERFACE_FAILURE"

(***************************************************************************)
(* The fault stage in front of the engine (PipeSpec): rules are registered *)
(* first, then each sample a provider yields goes through                  *)
(* injector.apply into engine.process, as in main.cpp and the integration  *)
(* tests, while faults are injected and cleared in between.                *)
(***************************************************************************)
\* what a provider's read() yields: a valid sample with one of the values;
\* invalid samples come out of the fault stage
ProviderSamples ==
    {<<v, TRUE>> : v \in Values}

\* no fault on the signal when its sample was applied
NoFault ==
    [type |-> "NONE", params |-> FaultParameters(0, 0, 0),
     cycles_remaining |-> 0]

\* the signals of the pipeline that can be given a fault
Faultable == {"a"}

\* number of samples sent through so far
NPiped == Len(pipe_hist["a"]) + Len(pipe_hist["b"])

PipeInit ==
    /\ \E capacity \in 1..MaxCap : pipe_engine = Engine(capacity)
    /\ pipe_injector = <<>>
    /\ pipe_clock = 0
    /\ pipe_hist = [id \in Ids |-> <<>>]
    /\ WindowIdle /\ EngineIdle /\ DetIdle /\ FaultIdle /\ PollIdle /\ SupIdle
    /\ LogIdle /\ StartIdle /\ WdIdle /\ RuleIdle /\ IsoIdle

\* engine.add_rule(rule), before the first sample
PipeAddRule(rule) ==
    /\ NPiped = 0
    /\ Len(pipe_engine.rules_) < MaxPipeRules
    /\ pipe_engine' = AddRuleTo(pipe_engine, rule)
    /\ UNCHANGED <<pipe_injector, pipe_clock, pipe_hist,
                   notPipeVars>>

\* injector.inject(id, type, params)
PipeInject(id, type, params) ==
    /\ pipe_injector' = Inject(pipe_injector, id, type, params)
    /\ UNCHANGED <<pipe_engine, pipe_clock, pipe_hist,
                   notPipeVars>>

\* injector.clear(id)
PipeClear(id) ==
    /\ pipe_injector' = Clear(pipe_injector, id)
    /\ UNCHANGED <<pipe_engine, pipe_clock, pipe_hist,
                   notPipeVars>>

\* engine.process({injector.apply(reading)}) for the sample a provider
\* yields at pipe_clock; the engine reads the clock after apply has slept.
\* pipe_hist records, per signal, each sample as read and as processed, the
\* fault that was on the signal, the signal's state and the length of the
\* transition list before and after, and whether every rule returned OK.
PipeSample(id, value, valid) ==
    /\ NPiped < MaxPiped
    /\ \E reading \in {SensorReading(id, value, valid, pipe_clock)} :
       \E result \in {Apply(pipe_injector, reading)} :
       \E now \in {pipe_clock + result.slept} :
       \E after \in {Process(pipe_engine, <<result.reading>>, now)} :
           /\ pipe_injector' = result.faults_
           /\ pipe_engine' = after
           /\ pipe_clock' = now + 1
           /\ pipe_hist' =
                 [pipe_hist EXCEPT ![id] = Append(@,
                     [input |-> reading,
                      output |-> result.reading,
                      fault |-> IF HasFault(pipe_injector, id)
                                THEN pipe_injector[id] ELSE NoFault,
                      from |-> SensorStateOf(pipe_engine, id),
                      to |-> SensorStateOf(after, id),
                      before |-> Len(pipe_engine.transitions_),
                      after |-> Len(after.transitions_),
                      all_ok |-> \A i \in 1..Len(after.rules_) :
                                    Evaluate(after.rules_[i], after.window_,
                                             id, now) = "OK"])]
    /\ UNCHANGED notPipeVars

PipeNext ==
    \/ \E rule \in RuleUniverse : PipeAddRule(rule)
    \/ \E id \in Faultable, input \in FaultInputs :
          PipeInject(id, input[1], input[2])
    \/ \E id \in Faultable : PipeClear(id)
    \/ \E id \in Ids, sample \in ProviderSamples :
          PipeSample(id, sample[1], sample[2])

PipeSpec == PipeInit /\ [][PipeNext]_vars

\* the from/to edges of the transitions of one signal, in the order the
\* engine appended them
EdgesOf(e, id) ==
    LET ts == SelectSeq(e.transitions_, LAMBDA t : t.sensor_id = id)
    IN  [i \in 1..Len(ts) |-> Edge(ts[i])]

\* the edges a signal that starts in state from goes through when it takes
\* these states one after the other
RECURSIVE Changes(_, _, _)
Changes(id, from, states) ==
    IF states = <<>> THEN <<>>
    ELSE IF Head(states) = from THEN Changes(id, from, Tail(states))
    ELSE <<[sensor_id |-> id, from |-> from, to |-> Head(states)]>>
         \o Changes(id, Head(states), Tail(states))

\* ImplausibleValueRule is the only rule registered
OnlyImplausible ==
    /\ Len(pipe_engine.rules_) = 1
    /\ pipe_engine.rules_[1].class = "ImplausibleValueRule"

\* within the bounds of an ImplausibleValueRule
InBounds(rule, value) ==
    value >= rule.absolute_min_ /\ value <= rule.absolute_max_

\* C16: with ImplausibleValueRule[lo, hi] as the only rule, a valid
\* in-bounds sample sent through the fault stage leaves its signal FAILED
\* when an InvalidValue fault with an out-of-bounds injected value is on the
\* signal and OK when no fault is on it; a signal all of whose samples were
\* of these two sorts has exactly the transitions that sequence of states
\* gives from UNKNOWN, so no fault, fault, no fault gives UNKNOWN->OK,
\* OK->FAILED, FAILED->OK and nothing else.
C16_InvalidValueFaultFailsSignal ==
    OnlyImplausible =>
        \A id \in Ids :
            LET rule == pipe_engine.rules_[1]
                h == pipe_hist[id]
                Healthy(i) == /\ h[i].input.valid
                              /\ InBounds(rule, h[i].input.value)
                Faulted(i) ==
                    /\ h[i].fault.type = "INVALID_VALUE"
                    /\ ~InBounds(rule, h[i].fault.params.injected_value)
                Clean(i) == h[i].fault = NoFault
            IN  /\ \A i \in 1..Len(h) :
                      Healthy(i) =>
                         /\ Faulted(i) => h[i].to = "FAILED"
                         /\ Clean(i) => h[i].to = "OK"
                /\ (\A i \in 1..Len(h) :
                       Healthy(i) /\ (Faulted(i) \/ Clean(i)))
                   => EdgesOf(pipe_engine, id) =
                         Changes(id, "UNKNOWN",
                                 [i \in 1..Len(h) |->
                                     IF Faulted(i) THEN "FAILED" ELSE "OK"])

\* a sample without fault, one under an InvalidValue fault of 999.0 and one
\* after the fault was cleared, with the three transitions
C16_Witness ==
    /\ OnlyImplausible
    /\ \E id \in Ids :
          LET h == pipe_hist[id]
          IN  /\ Len(h) = 3
              /\ \A i \in 1..3 : h[i].input.value = 50
              /\ h[1].fault = NoFault
              /\ h[2].fault.type = "INVALID_VALUE"
              /\ h[3].fault = NoFault
              /\ EdgesOf(pipe_engine, id) =
                    <<[sensor_id |-> id, from |-> "UNKNOWN", to |-> "OK"],
                      [sensor_id |-> id, from |-> "OK", to |-> "FAILED"],
                      [sensor_id |-> id, from |-> "FAILED", to |-> "OK"]>>

\* sample number i of a signal reached the engine invalid
InvalidAt(id, i) == ~pipe_hist[id][i].output.valid

\* sample number i of a signal reached the engine valid and every rule
\* returned OK for it
PassesAt(id, i) ==
    pipe_hist[id][i].output.valid /\ pipe_hist[id][i].all_ok

\* number of transitions the engine appended for sample number i of a signal
AppendedAt(id, i) == pipe_hist[id][i].after - pipe_hist[id][i].before

\* the last transition appended for sample number i of a signal
EdgeAt(id, i) == Edge(pipe_engine.transitions_[pipe_hist[id][i].after])

\* sample j is the first after sample i that is valid and passes every rule
FirstPassAfter(id, i, j) ==
    /\ i < j
    /\ PassesAt(id, j)
    /\ \A k \in (i + 1)..(j - 1) : ~PassesAt(id, k)

\* every invalid sample leaves the signal FAILED, with one transition to
\* FAILED if the signal was in another state and none if it was FAILED
InvalidRunsFailOnce ==
    \A id \in Ids :
        \A i \in 1..Len(pipe_hist[id]) :
            LET s == pipe_hist[id][i]
            IN  /\ i > 1 => s.from = pipe_hist[id][i - 1].to
                /\ InvalidAt(id, i) =>
                      /\ s.to = "FAILED"
                      /\ IF s.from = "FAILED"
                         THEN AppendedAt(id, i) = 0
                         ELSE /\ AppendedAt(id, i) = 1
                              /\ EdgeAt(id, i) =
                                    [sensor_id |-> id, from |-> s.from,
                                     to |-> "FAILED"]

\* C17 as stated: in a run of consecutive invalid samples of a signal one
\* transition to FAILED is appended at the first (if the signal was not
\* FAILED already) and none at the others, and the first later valid sample
\* for which every registered rule returns OK appends exactly one
\* transition, FAILED->OK.
C17_RecoveryIsFailedToOk ==
    /\ InvalidRunsFailOnce
    /\ \A id \in Ids :
          \A i, j \in 1..Len(pipe_hist[id]) :
              (InvalidAt(id, i) /\ FirstPassAfter(id, i, j)) =>
                 /\ AppendedAt(id, j) = 1
                 /\ EdgeAt(id, j) =
                       [sensor_id |-> id, from |-> "FAILED", to |-> "OK"]

\* C17 amended: in a run of consecutive invalid samples of a signal one
\* transition to FAILED is appended at the first (if the signal was not
\* FAILED already) and none at the others, and the first later valid sample
\* for which every registered rule returns OK appends exactly one transition
\* to OK, from the state the signal is in by then: from FAILED when it
\* comes right after the run, from FAILED or DEGRADED when valid samples
\* that did not pass the rules came in between.
C17_RecoveryFromCurrentState ==
    /\ InvalidRunsFailOnce
    /\ \A id \in Ids :
          \A i, j \in 1..Len(pipe_hist[id]) :
              (InvalidAt(id, i) /\ FirstPassAfter(id, i, j)) =>
                 /\ AppendedAt(id, j) = 1
                 /\ pipe_hist[id][j].from \in {"FAILED", "DEGRADED"}
                 /\ j = i + 1 => pipe_hist[id][j].from = "FAILED"
                 /\ EdgeAt(id, j) =
                       [sensor_id |-> id, from |-> pipe_hist[id][j].from,
                        to |-> "OK"]

\* two invalid samples in a row, one transition UNKNOWN->FAILED for the
\* first and none for the second, then a valid sample that passes a
\* registered rule and appends FAILED->OK
C17_Witness ==
    /\ Len(pipe_engine.rules_) = 1
    /\ \E id \in Ids :
          /\ Len(pipe_hist[id]) = 3
          /\ InvalidAt(id, 1) /\ InvalidAt(id, 2) /\ PassesAt(id, 3)
          /\ AppendedAt(id, 1) = 1
          /\ AppendedAt(id, 2) = 0
          /\ AppendedAt(id, 3) = 1
          /\ EdgeAt(id, 3) = [sensor_id |-> id, from |-> "FAILED", to |-> "OK"]

(***************************************************************************)
(* The stand-alone SensorManager (PollSpec): sensors are registered and    *)
(* poll() is called while the steady clock advances.                       *)
(***************************************************************************)
\* the ids of the sensors registered so far
Registered == {entries[i].sensor.sensor_id_ : i \in 1..Len(entries)}

\* the place of a registered sensor in entries_
IndexOf(id) == CHOOSE i \in 1..Len(entries) : entries[i].sensor.sensor_id_ = id

PollInit ==
    /\ entries = <<>>
    /\ poll_clock = 0
    /\ poll_log = <<>>
    /\ registered_at = <<>>
    /\ WindowIdle /\ EngineIdle /\ DetIdle /\ FaultIdle /\ PipeIdle /\ SupIdle
    /\ LogIdle /\ StartIdle /\ WdIdle /\ RuleIdle /\ IsoIdle

\* mgr.register_sensor(sensor, interval) for a sensor not registered yet;
\* registered_at records how many polls had been made before
PollRegister(id, value, interval) ==
    /\ id \notin Registered
    /\ entries' = RegisterSensor(entries, Sensor(id, value), interval)
    /\ registered_at' = [i \in Registered \cup {id} |->
                            IF i = id THEN Len(poll_log) ELSE registered_at[i]]
    /\ UNCHANGED <<poll_clock, poll_log, notPollVars>>

\* mgr.poll() at instant now of the steady clock, which never goes back;
\* poll_log records the instant and the readings returned
PollCall(now) ==
    /\ Len(poll_log) < MaxPolls
    /\ LET result == Poll(entries, now)
       IN  /\ entries' = result.entries_
           /\ poll_log' = Append(poll_log,
                                 [now |-> now, readings |-> result.readings])
    /\ poll_clock' = now
    /\ UNCHANGED <<registered_at, notPollVars>>

PollNext ==
    \/ \E id \in Ids, value \in Values, interval \in 0..MaxInterval :
          PollRegister(id, value, interval)
    \/ \E now \in poll_clock..MaxPollClock : PollCall(now)

PollSpec == PollInit /\ [][PollNext]_vars

\* the ids of the readings poll number p returned, in order
ReadIn(p) ==
    [i \in 1..Len(poll_log[p].readings) |-> poll_log[p].readings[i].sensor_id]

\* poll number p read this sensor
WasRead(id, p) == \E i \in 1..Len(ReadIn(p)) : ReadIn(p)[i] = id

\* C18: the first poll() after register_sensor(sensor, interval) reads the
\* sensor and returns its sample, whatever the interval and whatever the
\* steady clock shows at that poll.
C18_FirstPollReads ==
    \A id \in Registered :
        LET p == registered_at[id] + 1
        IN  p <= Len(poll_log) =>
               \E i \in 1..Len(poll_log[p].readings) :
                   poll_log[p].readings[i] =
                      Read(entries[IndexOf(id)].sensor, poll_log[p].now)

\* C19: a sensor registered with an interval I > 0 is never read by two
\* polls whose clock values are less than I apart, a sensor registered with
\* interval 0 is read by every poll after its registration, and every poll
\* returns at most one reading per sensor, the readings in the order the
\* sensors were registered.
C19_NoMoreOftenThanInterval ==
    /\ \A id \in Registered :
          LET interval == entries[IndexOf(id)].interval
          IN  /\ interval > 0 =>
                    \A p, q \in 1..Len(poll_log) :
                        (p < q /\ WasRead(id, p) /\ WasRead(id, q)) =>
                           poll_log[q].now - poll_log[p].now >= interval
              /\ interval = 0 =>
                    \A p \in (registered_at[id] + 1)..Len(poll_log) :
                        WasRead(id, p)
    /\ \A p \in 1..Len(poll_log) :
          /\ \A i \in 1..Len(ReadIn(p)) : ReadIn(p)[i] \in Registered
          /\ \A i, j \in 1..Len(ReadIn(p)) :
                i < j => IndexOf(ReadIn(p)[i]) < IndexOf(ReadIn(p)[j])

\* a sensor with interval 2 was read by the first and the third poll, two
\* instants apart, and not by the second, while a sensor with interval 0
\* registered before it was read by all three, ahead of it
C19_Witness ==
    /\ Len(entries) = 2
    /\ entries[1].interval = 0
    /\ entries[2].interval = 2
    /\ Len(poll_log) = 3
    /\ registered_at[entries[2].sensor.sensor_id_] = 0
    /\ Len(poll_log[1].readings) = 2
    /\ Len(poll_log[2].readings) = 1
    /\ Len(poll_log[3].readings) = 2
    /\ poll_log[3].now - poll_log[1].now = 2
    /\ poll_log[3].readings[1].sensor_id = entries[1].sensor.sensor_id_
    /\ poll_log[3].readings[2].sensor_id = entries[2].sensor.sensor_id_

(***************************************************************************)
(* The supervisor loop of main.cpp (SupSpec): two sensors, the rules main  *)
(* registers, a fault profile, and one action per iteration of the loop.   *)
(***************************************************************************)
\* the sensors main registers, in this order: one polled every loop period
\* and one every second period
SupSensors ==
    RegisterSensor(RegisterSensor(<<>>, Sensor("a", 50), 1),
                   Sensor("b", 50), MaxInterval)

\* the rules main registers, in this order
SupRules ==
    <<ThresholdRule(0, 95, "DEGRADED", "a"),
      ThresholdRule(0, 95, "DEGRADED", "b"),
      ImplausibleValueRule(-100, 20000),
      RateOfChangeRule(25),
      MissingDataRule(10, 30)>>

\* Engine engine; followed by the add_rule calls
RECURSIVE WithRules(_, _)
WithRules(e, rules) ==
    IF rules = <<>> THEN e
    ELSE WithRules(AddRuleTo(e, Head(rules)), Tail(rules))

\* the entries a fault profile can hold
SupFaultConfigs ==
    {FaultConfig(id, input[1], input[2], trigger_after_s, duration_s) :
        id \in Ids, input \in FaultInputs,
        trigger_after_s \in {Seconds(n) : n \in 0..MaxTrigger},
        duration_s \in {Seconds(n) : n \in 0..MaxTrigger} \cup {TinyDuration}}

SupInit ==
    /\ \E n \in 0..MaxFaults : sup_fault_configs \in [1..n -> SupFaultConfigs]
    /\ sup_injector = <<>>
    /\ sup_sensor_mgr = SupSensors
    /\ sup_engine = WithRules(Engine(DefaultCapacity), SupRules)
    /\ sup_prev_transition_count = 0
    /\ \E start \in {0, MaxInterval} :
          sup_start_time = start /\ sup_now = start
    /\ sup_tick = NoTick
    /\ sup_nticks = 0
    /\ sup_log = <<>>
    /\ running = 1
    /\ sup_pc = "test"
    /\ sup_exit = <<>>
    /\ sup_stop = <<>>
    /\ WindowIdle /\ EngineIdle /\ DetIdle /\ FaultIdle /\ PipeIdle /\ PollIdle
    /\ LogIdle /\ StartIdle /\ WdIdle /\ RuleIdle /\ IsoIdle

\* the body of the loop run at instant sup_now, values being what the
\* sensors measure; the next iteration starts after the sleep and after the
\* time apply blocked.  sup_tick records what the iteration logged, the
\* configs it injected, what poll returned, what process was given, the
\* length of the transition list before, elapsed_s, the calls made on
\* the injector, the faults left in it, the transitions process
\* appended, the faults apply found and the states process left; sup_log
\* lists these records of all iterations.
SupBody(values) ==
    /\ sup_nticks < MaxTicks
    /\ \E checked \in {CheckFaults(sup_fault_configs, sup_injector,
                                   Seconds(sup_now - sup_start_time))} :
       \E polled \in {Poll([i \in 1..Len(sup_sensor_mgr) |->
                              [sup_sensor_mgr[i] EXCEPT
                                  !.sensor.value_ =
                                     values[sup_sensor_mgr[i].sensor.sensor_id_]]],
                           sup_now)} :
       \E applied_ \in {ApplyLoop(checked.injector, polled.readings, 1, 0)} :
       \E processed \in {Process(sup_engine, applied_.readings,
                                 sup_now + applied_.slept)} :
          /\ sup_fault_configs' = checked.fault_configs
          /\ sup_injector' = applied_.injector
          /\ sup_sensor_mgr' = polled.entries_
          /\ sup_engine' = processed
          /\ sup_prev_transition_count' = Len(processed.transitions_)
          /\ sup_now' = sup_now + applied_.slept + 1
          /\ \E tick \in
                {[events |->
                     checked.events
                     \o [i \in 1..Len(applied_.readings) |->
                            LogReading(applied_.readings[i])]
                     \o LogNewTransitions(processed,
                                          sup_prev_transition_count),
                  fired |-> SelectSeq([i \in 1..Len(sup_fault_configs) |-> i],
                                      LAMBDA i :
                                         /\ ~sup_fault_configs[i].triggered
                                         /\ checked.fault_configs[i].triggered),
                  polled |-> polled.readings,
                  out |-> applied_.readings,
                  before |-> Len(sup_engine.transitions_),
                  elapsed_s |-> Seconds(sup_now - sup_start_time),
                  calls |-> checked.calls,
                  injector |-> applied_.injector,
                  appended |-> SubSeq(processed.transitions_,
                                      Len(sup_engine.transitions_) + 1,
                                      Len(processed.transitions_)),
                  active |-> checked.injector,
                  states |-> processed.sensor_states_]} :
                /\ sup_tick' = tick
                /\ sup_log' = Append(sup_log, tick)
    /\ sup_nticks' = sup_nticks + 1
    /\ UNCHANGED <<sup_start_time, notSupVars>>

\* the test while (running) finding the flag set, and the iteration that
\* follows
SupTick(values) ==
    /\ sup_pc = "test"
    /\ running # 0
    /\ SupBody(values)
    /\ UNCHANGED <<running, sup_pc, sup_exit, sup_stop>>

SupNext == \E values \in [Ids -> Values] : SupTick(values)

SupSpec == SupInit /\ [][SupNext]_vars

\* the place of a sensor in the order of registration
RegisteredAs(id) ==
    CHOOSE i \in 1..Len(sup_sensor_mgr) :
        sup_sensor_mgr[i].sensor.sensor_id_ = id

\* fault lines come first, reading lines second, transition lines third
Rank(event) ==
    CASE event.type = "fault" -> 1
      [] event.type = "reading" -> 2
      [] event.type = "transition" -> 3

\* C20: the lines an iteration of the supervisor loop logs are, in this
\* order: one fault line per fault injected in the iteration, one reading
\* line per sample poll returned, in the order of registration of the
\* sensors and carrying the sample as the fault stage returned it, and one
\* transition line per transition the engine appended in the iteration, in
\* the order of the engine's list; so no reading line comes before a fault
\* line and no transition line before a reading line.
C20_TickEventsOrdered ==
    LET ev == sup_tick.events
        nf == Len(sup_tick.fired)
        nr == Len(sup_tick.polled)
        nt == Len(sup_engine.transitions_) - sup_tick.before
    IN  /\ Len(ev) = nf + nr + nt
        /\ \A i \in 1..nf :
              LET fc == sup_fault_configs[sup_tick.fired[i]]
              IN  ev[i] = LogFault(fc.sensor_id, fc.type,
                                   fc.params.injected_value)
        /\ Len(sup_tick.out) = nr
        /\ \A i \in 1..nr :
              /\ ev[nf + i] = LogReading(sup_tick.out[i])
              /\ sup_tick.out[i].sensor_id = sup_tick.polled[i].sensor_id
        /\ \A i, j \in 1..nr :
              i < j => RegisteredAs(sup_tick.polled[i].sensor_id)
                          < RegisteredAs(sup_tick.polled[j].sensor_id)
        /\ \A i \in 1..nt :
              ev[nf + nr + i] =
                 LogTransition(sup_engine.transitions_[sup_tick.before + i])
        /\ \A i, j \in 1..Len(ev) : i < j => Rank(ev[i]) <= Rank(ev[j])

\* an iteration that logged two fault lines, two reading lines, one of
\* them with the value a fault put in, and two transition lines
C20_Witness ==
    /\ Len(sup_tick.fired) = 2
    /\ Len(sup_tick.polled) = 2
    /\ \E i \in 1..2 : sup_tick.out[i].value # sup_tick.polled[i].value
    /\ Len(sup_engine.transitions_) - sup_tick.before = 2
    /\ Len(sup_tick.events) = 6

\* how often iteration t of the loop made this call on the injector for
\* config number c
CallsOf(t, op, c) ==
    Cardinality({k \in 1..Len(sup_log[t].calls) :
                    sup_log[t].calls[k] = [op |-> op, config |-> c]})

\* the iterations so far whose elapsed time had reached the trigger time of
\* config number c
DueTicks(c) ==
    {t \in 1..Len(sup_log) :
        sup_log[t].elapsed_s >= sup_fault_configs[c].trigger_after_s}

\* the fault lines of iteration t
FaultLines(t) == SelectSeq(sup_log[t].events, LAMBDA e : e.type = "fault")

\* the inject calls of iteration t
InjectCalls(t) == SelectSeq(sup_log[t].calls, LAMBDA call : call.op = "inject")

\* C21: every config of the profile is injected exactly once, in the first
\* iteration whose elapsed time is at least its trigger_after_s, and in no
\* other iteration, whatever became of the fault; and an iteration logs
\* exactly one fault line per config it injects, the line of that config.
C21_InjectedExactlyOnce ==
    /\ \A c \in 1..Len(sup_fault_configs) : \A t \in 1..Len(sup_log) :
          CallsOf(t, "inject", c) =
             IF t \in DueTicks(c) /\ \A u \in DueTicks(c) : t <= u
             THEN 1 ELSE 0
    /\ \A t \in 1..Len(sup_log) :
          /\ Len(FaultLines(t)) = Len(InjectCalls(t))
          /\ \A k \in 1..Len(InjectCalls(t)) :
                LET fc == sup_fault_configs[InjectCalls(t)[k].config]
                IN  FaultLines(t)[k] =
                       LogFault(fc.sensor_id, fc.type,
                                fc.params.injected_value)

\* three iterations with a SPIKE config due from the second on: injected in
\* the second, used up by the sample of that iteration and not injected
\* again in the third
C21_Witness ==
    /\ Len(sup_log) = 3
    /\ \E c \in 1..Len(sup_fault_configs) :
          /\ sup_fault_configs[c].type = "SPIKE"
          /\ CallsOf(1, "inject", c) = 0
          /\ CallsOf(2, "inject", c) = 1
          /\ CallsOf(3, "inject", c) = 0
          /\ Len(FaultLines(2)) = 1
          /\ ~HasFault(sup_log[3].injector, sup_fault_configs[c].sensor_id)

\* the iterations so far whose elapsed time had reached this expiry time
ExpiredTicks(expiry) ==
    {t \in 1..Len(sup_log) : sup_log[t].elapsed_s >= expiry}

\* every config is cleared once, in the first iteration whose elapsed time
\* had reached expiry(config), provided it was triggered and its duration_s
\* is above zero, and in no other iteration
ClearedOnceAt(expiry(_)) ==
    \A c \in 1..Len(sup_fault_configs) : \A t \in 1..Len(sup_log) :
       LET fc == sup_fault_configs[c]
       IN  CallsOf(t, "clear", c) =
              IF /\ fc.triggered
                 /\ fc.duration_s > 0
                 /\ t \in ExpiredTicks(expiry(fc))
                 /\ \A u \in ExpiredTicks(expiry(fc)) : t <= u
              THEN 1 ELSE 0

\* only a triggered config is marked cleared
ClearedImpliesTriggered ==
    \A c \in 1..Len(sup_fault_configs) :
       sup_fault_configs[c].cleared => sup_fault_configs[c].triggered

\* the sum of two doubles, were it exact
ExactExpiry(fc) == fc.injected_at_s + fc.duration_s

\* the sum of two doubles as the program computes it
DoubleExpiry(fc) == DoubleSum(fc.injected_at_s, fc.duration_s)

\* C22 as stated: a triggered config with duration_s > 0 is cleared exactly
\* once, in the first iteration with elapsed_s >= injected_at_s + duration_s,
\* and never in the iteration that injected it; a config with duration_s = 0
\* is never cleared; cleared implies triggered.
C22_ClearedOnceAfterInjection ==
    /\ ClearedOnceAt(ExactExpiry)
    /\ \A c \in 1..Len(sup_fault_configs) : \A t \in 1..Len(sup_log) :
          ~(CallsOf(t, "inject", c) > 0 /\ CallsOf(t, "clear", c) > 0)
    /\ ClearedImpliesTriggered

\* C22 amended: a triggered config with duration_s > 0 is cleared exactly
\* once, in the first iteration whose elapsed_s is at least the double sum
\* injected_at_s + duration_s; this is the iteration that injected it when
\* duration_s is so small that the sum is rounded to injected_at_s, and a
\* later iteration otherwise; a config with duration_s = 0 is never
\* cleared; cleared implies triggered.
C22_ClearedOnceAtDoubleExpiry ==
    /\ ClearedOnceAt(DoubleExpiry)
    /\ \A c \in 1..Len(sup_fault_configs) : \A t \in 1..Len(sup_log) :
          CallsOf(t, "inject", c) > 0 /\ CallsOf(t, "clear", c) > 0
             => DoubleExpiry(sup_fault_configs[c])
                   = sup_fault_configs[c].injected_at_s
    /\ ClearedImpliesTriggered

\* three iterations and two configs: one lasting a loop period, injected in
\* the first iteration and cleared in the second and not again, and one of
\* the smallest duration injected and cleared in the second iteration
C22_Witness ==
    /\ Len(sup_log) = 3
    /\ Len(sup_fault_configs) = 2
    /\ sup_fault_configs[1].duration_s = Seconds(1)
    /\ CallsOf(1, "inject", 1) = 1
    /\ CallsOf(1, "clear", 1) = 0
    /\ CallsOf(2, "clear", 1) = 1
    /\ CallsOf(3, "clear", 1) = 0
    /\ sup_fault_configs[2].duration_s = TinyDuration
    /\ CallsOf(2, "inject", 2) = 1
    /\ CallsOf(2, "clear", 2) = 1

\* the transition lines of iteration t
TransitionLines(t) ==
    SelectSeq(sup_log[t].events, LAMBDA e : e.type = "transition")

\* the transitions process appended in the iterations 1..t, in order
RECURSIVE AppendedUpTo(_)
AppendedUpTo(t) ==
    IF t = 0 THEN <<>> ELSE AppendedUpTo(t - 1) \o sup_log[t].appended

\* the transition lines of the iterations 1..t, in order
RECURSIVE TransitionLinesUpTo(_)
TransitionLinesUpTo(t) ==
    IF t = 0 THEN <<>> ELSE TransitionLinesUpTo(t - 1) \o TransitionLines(t)

\* C23: the transition lines an iteration logs are the lines of the
\* transitions its process call appended, one each and in the order of
\* appending; so over all iterations every transition of the engine's list
\* is logged exactly once, in the order of the list.
C23_EveryTransitionLoggedOnce ==
    /\ \A t \in 1..Len(sup_log) :
          TransitionLines(t) =
             [i \in 1..Len(sup_log[t].appended) |->
                 LogTransition(sup_log[t].appended[i])]
    /\ AppendedUpTo(Len(sup_log)) = sup_engine.transitions_
    /\ TransitionLinesUpTo(Len(sup_log)) =
          [i \in 1..Len(sup_engine.transitions_) |->
              LogTransition(sup_engine.transitions_[i])]

\* three iterations whose process calls appended two, one and two
\* transitions
C23_Witness ==
    /\ Len(sup_log) = 3
    /\ Len(sup_log[1].appended) = 2
    /\ Len(sup_log[2].appended) = 1
    /\ Len(sup_log[3].appended) = 2
    /\ Len(TransitionLinesUpTo(3)) = 5

(***************************************************************************)
(* The supervisor loop with its termination flag (StopSpec): the test of   *)
(* while (running) and the body of the loop are steps of their own, and a  *)
(* signal can arrive before either.                                        *)
(***************************************************************************)
\* a run of main with a fault profile of at most one entry
StopInit ==
    /\ SupInit
    /\ Len(sup_fault_configs) <= 1

\* signal_handler, run on SIGINT or SIGTERM while the process is alive;
\* sup_stop records where the loop was at the first signal
SignalHandler ==
    /\ sup_pc # "done"
    /\ running' = 0
    /\ sup_stop' = IF sup_stop = <<>>
                   THEN <<[pc |-> sup_pc, nticks |-> sup_nticks]>>
                   ELSE sup_stop
    /\ UNCHANGED <<sup_fault_configs, sup_injector, sup_sensor_mgr,
                   sup_engine, sup_prev_transition_count, sup_start_time,
                   sup_now, sup_tick, sup_nticks, sup_log, sup_pc, sup_exit,
                   notSupVars>>

\* LoopTest going into the body whatever the flag says
LoopTest_ignoresFlag ==
    /\ sup_pc = "test"
    /\ IF sup_nticks < MaxTicks
       THEN /\ sup_pc' = "body"
            /\ UNCHANGED sup_exit
       ELSE /\ sup_pc' = "done"
            /\ \E order \in IterationOrders(DOMAIN sup_engine.sensor_states_) :
                  sup_exit' = <<[line |-> AggregateState(sup_engine, order),
                                 code |-> 0]>>
    /\ UNCHANGED <<sup_fault_configs, sup_injector, sup_sensor_mgr,
                   sup_engine, sup_prev_transition_count, sup_start_time,
                   sup_now, sup_tick, sup_nticks, sup_log, running, sup_stop,
                   notSupVars>>

\* the test of while (running): into the body, or past the loop to the
\* last line on standard output and return 0
LoopTest ==
    /\ sup_pc = "test"
    /\ IF running # 0
       THEN /\ sup_nticks < MaxTicks
            /\ sup_pc' = "body"
            /\ UNCHANGED sup_exit
       ELSE /\ sup_pc' = "done"
            /\ \E order \in IterationOrders(DOMAIN sup_engine.sensor_states_) :
                  sup_exit' = <<[line |-> AggregateState(sup_engine, order),
                                 code |-> 0]>>
    /\ UNCHANGED <<sup_fault_configs, sup_injector, sup_sensor_mgr,
                   sup_engine, sup_prev_transition_count, sup_start_time,
                   sup_now, sup_tick, sup_nticks, sup_log, running, sup_stop,
                   notSupVars>>

\* the body of the loop, up to the end of its sleep
StopBody(values) ==
    /\ sup_pc = "body"
    /\ SupBody(values)
    /\ sup_pc' = "test"
    /\ UNCHANGED <<running, sup_exit, sup_stop>>

StopNext ==
    \/ SignalHandler
    \/ LoopTest
    \/ \E values \in [Ids -> Values] : StopBody(values)

StopSpec == StopInit /\ [][StopNext]_vars

\* the step on which the body of the loop ends
BodyEnds == sup_pc = "body" /\ sup_pc' = "test"

\* the main thread goes on running: the test is made, and the body, whose
\* provider reads and sleeps return, comes to its end
StopFairSpec ==
    /\ StopSpec
    /\ WF_vars(LoopTest)
    /\ WF_sup_pc(BodyEnds)

\* once main has returned: the flag was set, the iterations run are those
\* begun before the flag was set, the iteration in progress then included,
\* its lines are all logged, the last line names the aggregate state of the
\* engine and the exit code is 0
StoppedAfterTickInProgress ==
    sup_pc = "done" =>
       /\ running = 0
       /\ sup_stop # <<>>
       /\ sup_nticks = sup_stop[1].nticks
                          + (IF sup_stop[1].pc = "body" THEN 1 ELSE 0)
       /\ Len(sup_log) = sup_nticks
       /\ C23_EveryTransitionLoggedOnce
       /\ sup_prev_transition_count = Len(sup_engine.transitions_)
       /\ Len(sup_exit) = 1
       /\ sup_exit[1].code = 0
       /\ \E order \in IterationOrders(DOMAIN sup_engine.sensor_states_) :
             sup_exit[1].line = AggregateState(sup_engine, order)

\* C24: once the flag is set, the loop finishes the iteration in progress
\* with all its lines, begins no other, and main writes the line with the
\* aggregate state and returns 0; and this does happen, provided the body
\* of the loop comes to its end.
C24_FlagSetLeadsToCleanExit ==
    /\ []StoppedAfterTickInProgress
    /\ [][running = 0 /\ sup_pc = "test" => sup_pc' # "body"]_vars
    /\ (running = 0) ~> (sup_pc = "done")

\* a signal during the second iteration, which went on to append and log a
\* transition before main returned
C24_Witness ==
    /\ sup_pc = "done"
    /\ sup_stop[1] = [pc |-> "body", nticks |-> 1]
    /\ sup_nticks = 2
    /\ Len(TransitionLines(2)) >= 1
    /\ sup_exit[1].line = "DEGRADED"

\* the signals iteration t polled
PolledIds(t) ==
    {sup_log[t].polled[i].sensor_id : i \in 1..Len(sup_log[t].polled)}

\* the sample of this signal that iteration t gave to process
OutOf(t, id) ==
    sup_log[t].out[CHOOSE i \in 1..Len(sup_log[t].out) :
                      sup_log[t].out[i].sensor_id = id]

\* the iterations before t that polled this signal
EarlierPolls(t, id) == {u \in 1..(t - 1) : id \in PolledIds(u)}

\* the iteration that injected config number c, if any
InjectedIn(c) == {t \in 1..Len(sup_log) : CallsOf(t, "inject", c) > 0}

\* iteration t is the first from the injection of config number c on to
\* poll the signal of the config, and apply found the fault of the config
FirstSampleThrough(c, t) ==
    LET fc == sup_fault_configs[c]
    IN  /\ \E t0 \in InjectedIn(c) :
              /\ t0 <= t
              /\ \A u \in t0..(t - 1) : fc.sensor_id \notin PolledIds(u)
        /\ fc.sensor_id \in PolledIds(t)
        /\ fc.sensor_id \in DOMAIN sup_log[t].active
        /\ sup_log[t].active[fc.sensor_id] =
              [type |-> fc.type, params |-> fc.params,
               cycles_remaining |-> fc.params.suppress_cycles]

Invalidates(fault) ==
    \/ fault.type = "INTERFACE_FAILURE"
    \/ fault.type = "MISSING_UPDATE" /\ fault.cycles_remaining > 0

\* the fault puts in a value outside the bounds of the signal's
\* ThresholdRule
PutsInBreach(fault) ==
    /\ fault.type \in {"INVALID_VALUE", "SPIKE"}
    /\ \/ fault.params.injected_value < 0
       \/ fault.params.injected_value > 95

\* the sample given to process is valid, within all bounds and no further
\* from the sample before it than the RateOfChangeRule allows
Calm(t, id) ==
    /\ OutOf(t, id).valid
    /\ OutOf(t, id).value = 50
    /\ \A u \in EarlierPolls(t, id) :
          (\A v \in EarlierPolls(t, id) : v <= u) =>
             ~OutOf(u, id).valid \/ OutOf(u, id).value = 50

MissingDataRulesOf(e) ==
    {e.rules_[i] : i \in {j \in 1..Len(e.rules_) :
                             e.rules_[j].class = "MissingDataRule"}}

\* the instant the last sample of a signal was read
LastArrival(id) == pipe_hist[id][Len(pipe_hist[id])].input.timestamp

\* C26: with a MissingDataRule registered, a known signal is DEGRADED or
\* FAILED once the engine has processed a sample of another signal read
\* more than max_age after the signal's own last sample, and FAILED once
\* that was more than fail_age after.
C26_SilentSignalDegrades ==
    \A rule \in MissingDataRulesOf(pipe_engine) :
    \A id \in Ids : \A other \in Ids \ {id} :
       (pipe_hist[id] # <<>> /\ pipe_hist[other] # <<>>) =>
          LET silent_for == LastArrival(other) - LastArrival(id)
              state == SensorStateOf(pipe_engine, id)
          IN  /\ silent_for > rule.max_age_
                    => state \in {"DEGRADED", "FAILED"}
              /\ silent_for > rule.fail_age_ => state = "FAILED"

\* C27: under the rules main registers, a valid sample given to process
\* with a value outside [-1.0, 200.0] leaves its signal FAILED.
C27_ImplausibleSampleFails ==
    \A t \in 1..Len(sup_log) : \A id \in PolledIds(t) :
       (/\ OutOf(t, id).valid
        /\ \/ OutOf(t, id).value < -100
           \/ OutOf(t, id).value > 20000)
          => sup_log[t].states[id] = "FAILED"

(***************************************************************************)
(* The Logger called from several threads (LogSpec).  A line is written    *)
(* with two stream insertions, the JSON text and the end of line; a        *)
(* stream holds the pieces inserted so far.  Of the JSON text the model    *)
(* keeps the kind of event and, in place of the rest, the caller and the   *)
(* number of the call.                                                     *)
(***************************************************************************)
\* the log operations of the Logger
LogOps == {"reading", "transition", "fault", "rule_violation"}

\* the end of a line
EndOfLine == [type |-> "\n"]

\* Logger::Logger(output_path): the file is opened for appending unless the
\* path is empty; opened tells whether the open succeeds
LoggerFile(output_path, opened) ==
    IF output_path # "" /\ opened
    THEN [ClosedFile EXCEPT !.is_open = TRUE]
    ELSE ClosedFile

\* file_ << piece: nothing is written once the stream has failed
Insert(file, piece) ==
    IF file.good THEN [file EXCEPT !.content = Append(@, piece)] ELSE file

LogInit ==
    /\ \E output_path \in {"", "kestrel.jsonl"}, opened \in BOOLEAN :
          file_ = LoggerFile(output_path, opened)
    /\ cout = <<>>
    /\ mutex_ = "free"
    /\ log_pc = [t \in Threads |-> "idle"]
    /\ log_json = [t \in Threads |-> <<>>]
    /\ log_calls = [t \in Threads |-> <<>>]
    /\ WindowIdle /\ EngineIdle /\ DetIdle /\ FaultIdle /\ PipeIdle /\ PollIdle
    /\ SupIdle /\ StartIdle /\ WdIdle /\ RuleIdle /\ IsoIdle

\* thread t calls log_reading, log_transition, log_fault or
\* log_rule_violation: the JSON text is built and write_line entered;
\* log_calls records the texts the thread has asked to log
LogCall(t, op) ==
    /\ log_pc[t] = "idle"
    /\ Len(log_calls[t]) < MaxLogCalls
    /\ \E json \in {[type |-> op, thread |-> t,
                       call |-> Len(log_calls[t]) + 1]} :
          /\ log_json' = [log_json EXCEPT ![t] = json]
          /\ log_calls' = [log_calls EXCEPT ![t] = Append(@, json)]
    /\ log_pc' = [log_pc EXCEPT ![t] = "lock"]
    /\ UNCHANGED <<file_, cout, mutex_, notLogVars>>

\* a lock_guard that does not wait for the mutex
Lock_noExclusion(t) ==
    /\ log_pc[t] = "lock"
    /\ mutex_' = t
    /\ log_pc' = [log_pc EXCEPT ![t] =
                     IF file_.is_open THEN "file_json" ELSE "cout_json"]
    /\ UNCHANGED <<file_, cout, log_json, log_calls, notLogVars>>

\* std::lock_guard<std::mutex> lock(mutex_) and the test of file_.is_open()
Lock(t) ==
    /\ log_pc[t] = "lock"
    /\ mutex_ = "free"
    /\ mutex_' = t
    /\ log_pc' = [log_pc EXCEPT ![t] =
                     IF file_.is_open THEN "file_json" ELSE "cout_json"]
    /\ UNCHANGED <<file_, cout, log_json, log_calls, notLogVars>>

\* file_ << json
FileJson(t) ==
    /\ log_pc[t] = "file_json"
    /\ file_' = Insert(file_, log_json[t])
    /\ log_pc' = [log_pc EXCEPT ![t] = "file_endl"]
    /\ UNCHANGED <<cout, mutex_, log_json, log_calls, notLogVars>>

\* file_ << "\n"; file_.flush()
FileEndl(t) ==
    /\ log_pc[t] = "file_endl"
    /\ file_' = Insert(file_, EndOfLine)
    /\ log_pc' = [log_pc EXCEPT ![t] = "cout_json"]
    /\ UNCHANGED <<cout, mutex_, log_json, log_calls, notLogVars>>

\* write_line without the line to standard output when the file is unusable
CoutJson_onlyWithFile(t) ==
    /\ log_pc[t] = "cout_json"
    /\ cout' = IF file_.is_open /\ file_.good
               THEN Append(cout, log_json[t]) ELSE cout
    /\ log_pc' = [log_pc EXCEPT ![t] = "cout_endl"]
    /\ UNCHANGED <<file_, mutex_, log_json, log_calls, notLogVars>>

\* std::cout << json
CoutJson(t) ==
    /\ log_pc[t] = "cout_json"
    /\ cout' = Append(cout, log_json[t])
    /\ log_pc' = [log_pc EXCEPT ![t] = "cout_endl"]
    /\ UNCHANGED <<file_, mutex_, log_json, log_calls, notLogVars>>

\* std::cout << std::endl, the end of the lock_guard and the return
CoutEndl(t) ==
    /\ log_pc[t] = "cout_endl"
    /\ cout' = Append(cout, EndOfLine)
    /\ mutex_' = IF mutex_ = t THEN "free" ELSE mutex_
    /\ log_pc' = [log_pc EXCEPT ![t] = "idle"]
    /\ UNCHANGED <<file_, log_json, log_calls, notLogVars>>

\* a write to the open file fails (the disk is full, the file system is
\* gone): the stream is marked failed
FileFails ==
    /\ file_.is_open
    /\ file_.good
    /\ file_' = [file_ EXCEPT !.good = FALSE]
    /\ UNCHANGED <<cout, mutex_, log_pc, log_json, log_calls, notLogVars>>

LogNext ==
    \/ \E t \in Threads, op \in LogOps : LogCall(t, op)
    \/ \E t \in Threads : Lock(t)
    \/ \E t \in Threads : FileJson(t)
    \/ \E t \in Threads : FileEndl(t)
    \/ \E t \in Threads : CoutJson(t)
    \/ \E t \in Threads : CoutEndl(t)
    \/ FileFails

LogSpec == LogInit /\ [][LogNext]_vars

\* the pieces are JSON texts and ends of line in turn
IsLines(content) ==
    \A i \in 1..Len(content) : (content[i] = EndOfLine) = (i % 2 = 0)

\* the complete lines of a stream
LinesOf(content) == [i \in 1..(Len(content) \div 2) |-> content[2 * i - 1]]

\* how often a JSON text is among the lines
TimesIn(lines, json) == Cardinality({i \in 1..Len(lines) : lines[i] = json})

\* the JSON texts whose log operation has returned
Returned(t) ==
    {log_calls[t][k] :
        k \in 1..(IF log_pc[t] = "idle" THEN Len(log_calls[t])
                  ELSE Len(log_calls[t]) - 1)}

\* the file was opened and no write to it has failed
FileUsable == file_.is_open /\ file_.good

\* C28: with several threads calling the log operations, standard output
\* and, when it was opened and no write failed, the file consist of whole
\* lines, a line being unfinished only while its writer is in write_line;
\* no event is there twice, every event whose log operation has returned is
\* there once, and the lines of the file are those of standard output in
\* the same order, the file being one line ahead while a writer is between
\* the two.
C28_WholeLinesSameOrder ==
    /\ IsLines(cout)
    /\ Len(cout) % 2 = 1 => mutex_ # "free"
    /\ \A t \in Threads : \A k \in 1..Len(log_calls[t]) :
          TimesIn(LinesOf(cout), log_calls[t][k]) <= 1
    /\ \A t \in Threads : \A json \in Returned(t) :
          TimesIn(LinesOf(cout), json) = 1
    /\ FileUsable =>
          /\ IsLines(file_.content)
          /\ Len(file_.content) % 2 = 1 => mutex_ # "free"
          /\ \A t \in Threads : \A k \in 1..Len(log_calls[t]) :
                TimesIn(LinesOf(file_.content), log_calls[t][k]) <= 1
          /\ \A t \in Threads : \A json \in Returned(t) :
                TimesIn(LinesOf(file_.content), json) = 1
          /\ LET f == LinesOf(file_.content)
                 c == LinesOf(cout)
             IN  /\ Len(c) <= Len(f)
                 /\ Len(f) <= Len(c) + 1
                 /\ SubSeq(f, 1, Len(c)) = c
                 /\ mutex_ = "free" => f = c

\* one thread is in write_line between the file and standard output while
\* the other waits for the mutex; the file has three lines of both threads
\* and standard output two
C28_Witness ==
    /\ FileUsable
    /\ log_pc["t1"] = "cout_json"
    /\ log_pc["t2"] = "lock"
    /\ mutex_ = "t1"
    /\ Len(file_.content) = 6
    /\ Len(cout) = 4
    /\ file_.content[1].thread # file_.content[3].thread

\* C29: when the file was not opened (no path, or the open failed) or a
\* write to it has failed, every log operation still writes its line to
\* standard output and returns: standard output consists of whole lines,
\* every event whose log operation has returned is there once, the mutex is
\* held only by a thread on its way through write_line, and a file that
\* was not opened is left empty.
C29_StdoutWithoutFile ==
    ~FileUsable =>
       /\ IsLines(cout)
       /\ \A t \in Threads : \A json \in Returned(t) :
             TimesIn(LinesOf(cout), json) = 1
       /\ mutex_ # "free" =>
             log_pc[mutex_] \in {"file_json", "file_endl", "cout_json",
                                 "cout_endl"}
       /\ ~file_.is_open => file_.content = <<>>

\* the file could not be opened, both threads have logged their events and
\* returned, and standard output has the four lines
C29_Witness ==
    /\ ~file_.is_open
    /\ \A t \in Threads :
          log_pc[t] = "idle" /\ Len(log_calls[t]) = MaxLogCalls
    /\ Len(LinesOf(cout)) = 2 * MaxLogCalls
    /\ mutex_ = "free"

(***************************************************************************)
(* The start of main (StartSpec): the command line is parsed, the Logger   *)
(* constructed, the fault profile loaded, and the loop entered.  An        *)
(* exception nothing catches ends the process in std::terminate, that is   *)
(* with SIGABRT.                                                           *)
(***************************************************************************)
\* the words a command line is made of
Words ==
    {"--fault", "--log", "--threshold", "--verbose", "profile.json", "0.9",
     "abc"}

\* what the file profile.json can be: not there, not JSON, JSON naming a
\* fault type parse_fault_type does not know, or a profile
ProfileFiles == {"missing", "malformed", "unknown_type", "valid"}

\* the exit status of a process ended by SIGABRT, as a shell reports it
Aborted == 134

\* the values of the locals of main before the loop over argv
DefaultArgs ==
    [fault_config_path |-> "", log_path |-> "kestrel.jsonl", threshold |-> 95,
     threw |-> FALSE, ignored |-> <<>>]

\* std::stod: the number a word starts with, here for the one word that
\* does; threw tells that no conversion could be performed
Stod(word) ==
    IF word = "0.9" THEN [value |-> 90, threw |-> FALSE]
    ELSE [value |-> 0, threw |-> TRUE]

\* the loop over argv from argv[i] on, argv[0] left out; ignored lists the
\* words no branch took
RECURSIVE ParseArgs(_, _, _)
ParseArgs(argv, i, args) ==
    IF i > Len(argv) THEN args
    ELSE IF argv[i] = "--fault" /\ i < Len(argv)
         THEN ParseArgs(argv, i + 2,
                        [args EXCEPT !.fault_config_path = argv[i + 1]])
    ELSE IF argv[i] = "--log" /\ i < Len(argv)
         THEN ParseArgs(argv, i + 2, [args EXCEPT !.log_path = argv[i + 1]])
    ELSE IF argv[i] = "--threshold" /\ i < Len(argv)
         THEN IF Stod(argv[i + 1]).threw
              THEN [args EXCEPT !.threw = TRUE]
              ELSE ParseArgs(argv, i + 2,
                             [args EXCEPT !.threshold =
                                             Stod(argv[i + 1]).value])
    ELSE ParseArgs(argv, i + 1, [args EXCEPT !.ignored = Append(@, argv[i])])

\* what FaultProfile::load finds at a path
FileAt(path) == IF path = "profile.json" THEN start_files ELSE "missing"

\* FaultProfile::load throws: the file cannot be opened, is not JSON, or
\* names an unknown fault type
LoadThrows(path) == FileAt(path) # "valid"

StartInit ==
    /\ \E n \in 0..MaxArgs : start_argv \in [1..n -> Words]
    /\ start_files \in ProfileFiles
    /\ start_pc = "main"
    /\ start_args = <<>>
    /\ start_log_open = FALSE
    /\ start_nticks = 0
    /\ start_lines = 0
    /\ start_exit = <<>>
    /\ WindowIdle /\ EngineIdle /\ DetIdle /\ FaultIdle /\ PipeIdle /\ PollIdle
    /\ SupIdle /\ LogIdle /\ WdIdle /\ RuleIdle /\ IsoIdle

\* the loop over argv; an exception of std::stod ends the process
ParseArguments ==
    /\ start_pc = "main"
    /\ \E args \in {ParseArgs(start_argv, 1, DefaultArgs)} :
          IF args.threw
          THEN /\ start_pc' = "terminated"
               /\ start_exit' = <<Aborted>>
               /\ UNCHANGED start_args
          ELSE /\ start_pc' = "logger"
               /\ start_args' = args
               /\ UNCHANGED start_exit
    /\ UNCHANGED <<start_argv, start_files, start_log_open, start_nticks,
                   start_lines, notStartVars>>

\* Logger logger(log_path): the file is opened (and created) when the path
\* is not empty and the open succeeds
ConstructLogger ==
    /\ start_pc = "logger"
    /\ \E opened \in BOOLEAN :
          start_log_open' = LoggerFile(start_args.log_path, opened).is_open
    /\ start_pc' = "load"
    /\ UNCHANGED <<start_argv, start_files, start_args, start_nticks,
                   start_lines, start_exit, notStartVars>>

\* the sensors and rules are registered and the fault profile is loaded if
\* a path was given; an exception of FaultProfile::load ends the process
LoadProfile ==
    /\ start_pc = "load"
    /\ IF start_args.fault_config_path # ""
          /\ LoadThrows(start_args.fault_config_path)
       THEN /\ start_pc' = "terminated"
            /\ start_exit' = <<Aborted>>
       ELSE /\ start_pc' = "loop"
            /\ UNCHANGED start_exit
    /\ UNCHANGED <<start_argv, start_files, start_args, start_log_open,
                   start_nticks, start_lines, notStartVars>>

\* one iteration of the loop: it logs a reading line for every sample poll
\* returned, at most one per registered sensor
StartTick ==
    /\ start_pc = "loop"
    /\ start_nticks < MaxTicks
    /\ start_nticks' = start_nticks + 1
    /\ \E polled \in 0..Len(SupSensors) : start_lines' = start_lines + polled
    /\ UNCHANGED <<start_argv, start_files, start_pc, start_args,
                   start_log_open, start_exit, notStartVars>>

\* a signal ends the loop and main returns 0
StartShutdown ==
    /\ start_pc = "loop"
    /\ start_pc' = "exited"
    /\ start_exit' = <<0>>
    /\ UNCHANGED <<start_argv, start_files, start_args, start_log_open,
                   start_nticks, start_lines, notStartVars>>

StartNext ==
    \/ ParseArguments
    \/ ConstructLogger
    \/ LoadProfile
    \/ StartTick
    \/ StartShutdown

StartSpec == StartInit /\ [][StartNext]_vars

\* the command line has a flag main does not know or a flag without its
\* value, or a threshold that is not a number, or names a fault profile
\* that is missing, malformed or has an unknown fault type
ConfigurationError ==
    LET args == ParseArgs(start_argv, 1, DefaultArgs)
    IN  \/ args.threw
        \/ \E k \in 1..Len(args.ignored) :
              args.ignored[k] \in {"--fault", "--log", "--threshold",
                                   "--verbose"}
        \/ /\ args.fault_config_path # ""
           /\ LoadThrows(args.fault_config_path)

\* C30: on a configuration error the process exits non-zero without having
\* entered the loop: no iteration is run and no event line is logged.
C30_ConfigurationErrorFailsStartup ==
    ConfigurationError =>
       /\ start_pc \notin {"loop", "exited"}
       /\ start_nticks = 0
       /\ start_lines = 0
       /\ start_exit # <<>> => start_exit[1] # 0

(***************************************************************************)
(* The watchdog of the menu-bar application (AppDelegate).  The timer,     *)
(* the delayed restart and the menu actions run on the main queue, one     *)
(* after the other; handleLine is called from the readability handler of   *)
(* the core's pipe on a background queue and is not synchronised with      *)
(* them, so its statements interleave with those of handleCoreFailure.     *)
(* Instants are seconds.                                                   *)
(***************************************************************************)
\* the largest reading of Date() in a run
MaxWdNow == 16

\* how often the sensitivity is changed from the menu in a run
MaxManual == 1

maxRestartAttempts == 5

staleDataTimeout == 15

\* the initial backoffDelay, 1.0
InitialBackoff == 1

\* the cap of the delay, 30.0
BackoffCap == 30

Min2(x, y) == IF x < y THEN x ELSE y

\* what Date() can return once wd_clock was read
WdNows ==
    {t \in {wd_clock, wd_clock + staleDataTimeout,
            wd_clock + staleDataTimeout + 1} : t <= MaxWdNow}

\* what findCoreBinary and Process.run make of a launch
Launches == {"notfound", "started", "failed"}

\* the lines the core's pipe delivers: has_prefix is hasPrefix("{"),
\* typed is whether the line parses as a JSON object with a string "type"
WdLines == [has_prefix : BOOLEAN, typed : BOOLEAN]

IsEventLine(line) == line.has_prefix /\ line.typed

\* coreProcess?.stop(): a running process is interrupted and waited for
StopCore(core) == IF core = "running" THEN "exited" ELSE core

\* startCore()
StartCore(launch, core) ==
    IF launch = "notfound"
    THEN [coreError |-> "Core binary not found", aggregateLabel |-> "Error",
          coreProcess |-> core, started |-> FALSE]
    ELSE [coreError |-> "nil", aggregateLabel |-> "",
          coreProcess |-> IF launch = "started" THEN "running" ELSE "exited",
          started |-> TRUE]

WdInit ==
    /\ WdIdle
    /\ WindowIdle /\ EngineIdle /\ DetIdle /\ FaultIdle /\ PipeIdle /\ PollIdle
    /\ SupIdle /\ LogIdle /\ StartIdle /\ RuleIdle /\ IsoIdle

\* applicationDidFinishLaunching: startCore()
Launch(launch) ==
    /\ wd_main_pc = "constructed"
    /\ \E r \in {StartCore(launch, coreProcess)} :
          /\ coreError' = r.coreError
          /\ aggregateLabel' =
                IF r.started THEN aggregateLabel ELSE r.aggregateLabel
          /\ coreProcess' = r.coreProcess
          /\ watchdogTimer' = (r.started \/ watchdogTimer)
    /\ wd_main_pc' = "idle"
    /\ UNCHANGED <<restartAttempts, backoffDelay, lastDataTimestamp, wd_clock,
                   wd_pending, wd_register, wd_line_pc, wd_consecutive,
                   wd_manual, wd_rank, notWdVars>>

\* the core process ends on its own
CoreExits ==
    /\ coreProcess = "running"
    /\ coreProcess' = "exited"
    /\ UNCHANGED <<restartAttempts, backoffDelay, coreError, aggregateLabel,
                   watchdogTimer, lastDataTimestamp, wd_clock, wd_pending,
                   wd_main_pc, wd_register, wd_line_pc, wd_consecutive,
                   wd_manual, wd_rank, notWdVars>>

\* checkCoreHealth finds the process gone or the data stale
CoreFailed(now) ==
    \/ coreProcess = "exited"
    \/ now - lastDataTimestamp > staleDataTimeout

\* the watchdog timer fires: checkCoreHealth, and on a failure the start
\* of handleCoreFailure: stopWatchdog and the read of restartAttempts
WatchdogFires(now) ==
    /\ wd_main_pc = "idle"
    /\ watchdogTimer
    /\ wd_clock' = now
    /\ IF CoreFailed(now)
       THEN /\ watchdogTimer' = FALSE
            /\ wd_register' = restartAttempts
            /\ wd_main_pc' = "increment"
            /\ wd_consecutive' = wd_consecutive + 1
            /\ wd_rank' = wd_consecutive + 1
       ELSE UNCHANGED <<watchdogTimer, wd_register, wd_main_pc,
                        wd_consecutive, wd_rank>>
    /\ UNCHANGED <<restartAttempts, backoffDelay, coreError, aggregateLabel,
                   coreProcess, lastDataTimestamp, wd_pending, wd_line_pc,
                   wd_manual, notWdVars>>

\* handleCoreFailure: the write of restartAttempts += 1
FailureIncrement ==
    /\ wd_main_pc = "increment"
    /\ restartAttempts' = wd_register + 1
    /\ wd_register' = 0
    /\ wd_main_pc' = "test"
    /\ UNCHANGED <<backoffDelay, coreError, aggregateLabel, watchdogTimer,
                   coreProcess, lastDataTimestamp, wd_clock, wd_pending,
                   wd_line_pc, wd_consecutive, wd_manual, wd_rank, notWdVars>>

\* handleCoreFailure: if restartAttempts > maxRestartAttempts, the error
\* and the return; otherwise the restarting message
FailureTest ==
    /\ wd_main_pc = "test"
    /\ IF restartAttempts > maxRestartAttempts
       THEN /\ coreError' = "Core process failed"
            /\ aggregateLabel' = "Error"
            /\ wd_main_pc' = "idle"
       ELSE /\ coreError' = "Core restarting"
            /\ aggregateLabel' = aggregateLabel
            /\ wd_main_pc' = "schedule"
    /\ UNCHANGED <<restartAttempts, backoffDelay, watchdogTimer, coreProcess,
                   lastDataTimestamp, wd_clock, wd_pending, wd_register,
                   wd_line_pc, wd_consecutive, wd_manual, wd_rank, notWdVars>>

\* handleCoreFailure: the delay, the doubling of backoffDelay and
\* DispatchQueue.main.asyncAfter(deadline: .now() + delay)
FailureSchedule ==
    /\ wd_main_pc = "schedule"
    /\ wd_pending' = Append(wd_pending, Min2(backoffDelay, BackoffCap))
    /\ backoffDelay' = Min2(backoffDelay * 2, BackoffCap)
    /\ wd_main_pc' = "idle"
    /\ UNCHANGED <<restartAttempts, coreError, aggregateLabel, watchdogTimer,
                   coreProcess, lastDataTimestamp, wd_clock, wd_register,
                   wd_line_pc, wd_consecutive, wd_manual, wd_rank, notWdVars>>

\* a sequence without its i-th element
WithoutAt(s, i) == [k \in 1..(Len(s) - 1) |-> IF k < i THEN s[k] ELSE s[k + 1]]

\* the closure of asyncAfter runs: stop, lastDataTimestamp, startCore
RestartClosure(i, now, launch) ==
    /\ wd_main_pc = "idle"
    /\ i \in 1..Len(wd_pending)
    /\ wd_pending' = WithoutAt(wd_pending, i)
    /\ wd_clock' = now
    /\ lastDataTimestamp' = now
    /\ \E r \in {StartCore(launch, StopCore(coreProcess))} :
          /\ coreError' = r.coreError
          /\ aggregateLabel' =
                IF r.started THEN aggregateLabel ELSE r.aggregateLabel
          /\ coreProcess' = r.coreProcess
          /\ watchdogTimer' = (r.started \/ watchdogTimer)
    /\ UNCHANGED <<restartAttempts, backoffDelay, wd_main_pc, wd_register,
                   wd_line_pc, wd_consecutive, wd_manual, wd_rank, notWdVars>>

\* changeSensitivity: restartCore()
ChangeSensitivity(now, launch) ==
    /\ wd_main_pc = "idle"
    /\ wd_manual < MaxManual
    /\ wd_manual' = wd_manual + 1
    /\ wd_clock' = now
    /\ lastDataTimestamp' = now
    /\ \E r \in {StartCore(launch, StopCore(coreProcess))} :
          /\ coreError' = r.coreError
          /\ aggregateLabel' =
                IF r.started THEN "UNKNOWN" ELSE r.aggregateLabel
          /\ coreProcess' = r.coreProcess
          /\ watchdogTimer' = r.started
    /\ UNCHANGED <<restartAttempts, backoffDelay, wd_pending, wd_main_pc,
                   wd_register, wd_line_pc, wd_consecutive,
                   wd_rank, notWdVars>>

\* handleLine on the background queue: the two guards and, for an event
\* line, lastDataTimestamp = Date()
LineArrives(line, now) ==
    /\ wd_line_pc = "idle"
    /\ coreProcess = "running"
    /\ IF IsEventLine(line)
       THEN /\ wd_clock' = now
            /\ lastDataTimestamp' = now
            /\ wd_line_pc' = "test"
            /\ wd_consecutive' = 0
       ELSE /\ wd_clock' = wd_clock
            /\ lastDataTimestamp' = lastDataTimestamp
            /\ wd_line_pc' = "rejected"
            /\ wd_consecutive' = wd_consecutive
    /\ UNCHANGED <<restartAttempts, backoffDelay, coreError, aggregateLabel,
                   watchdogTimer, coreProcess, wd_pending, wd_main_pc,
                   wd_register, wd_manual, wd_rank, notWdVars>>

\* handleLine: if restartAttempts > 0, or the return of a rejected line
LineTest ==
    /\ wd_line_pc \in {"test", "rejected"}
    /\ wd_line_pc' =
          IF wd_line_pc = "test" /\ restartAttempts > 0
          THEN "reset_attempts" ELSE "idle"
    /\ UNCHANGED <<restartAttempts, backoffDelay, coreError, aggregateLabel,
                   watchdogTimer, coreProcess, lastDataTimestamp, wd_clock,
                   wd_pending, wd_main_pc, wd_register, wd_consecutive,
                   wd_manual, wd_rank, notWdVars>>

\* handleLine: restartAttempts = 0
LineResetAttempts ==
    /\ wd_line_pc = "reset_attempts"
    /\ restartAttempts' = 0
    /\ wd_line_pc' = "reset_backoff"
    /\ UNCHANGED <<backoffDelay, coreError, aggregateLabel, watchdogTimer,
                   coreProcess, lastDataTimestamp, wd_clock, wd_pending,
                   wd_main_pc, wd_register, wd_consecutive, wd_manual,
                   wd_rank, notWdVars>>

\* handleLine: backoffDelay = 1.0
LineResetBackoff ==
    /\ wd_line_pc = "reset_backoff"
    /\ backoffDelay' = InitialBackoff
    /\ wd_line_pc' = "reset_error"
    /\ UNCHANGED <<restartAttempts, coreError, aggregateLabel, watchdogTimer,
                   coreProcess, lastDataTimestamp, wd_clock, wd_pending,
                   wd_main_pc, wd_register, wd_consecutive, wd_manual,
                   wd_rank, notWdVars>>

\* handleLine: coreError = nil, and the rest of the handler
LineResetError ==
    /\ wd_line_pc = "reset_error"
    /\ coreError' = "nil"
    /\ wd_line_pc' = "idle"
    /\ UNCHANGED <<restartAttempts, backoffDelay, aggregateLabel,
                   watchdogTimer, coreProcess, lastDataTimestamp, wd_clock,
                   wd_pending, wd_main_pc, wd_register, wd_consecutive,
                   wd_manual, wd_rank, notWdVars>>

WdNext ==
    \/ \E launch \in Launches : Launch(launch)
    \/ CoreExits
    \/ \E now \in WdNows : WatchdogFires(now)
    \/ FailureIncrement
    \/ FailureTest
    \/ FailureSchedule
    \/ \E i \in 1..Len(wd_pending), now \in WdNows, launch \in Launches :
          RestartClosure(i, now, launch)
    \/ \E now \in WdNows, launch \in Launches : ChangeSensitivity(now, launch)
    \/ \E line \in WdLines, now \in WdNows : LineArrives(line, now)
    \/ LineTest
    \/ LineResetAttempts
    \/ LineResetBackoff
    \/ LineResetError

WdSpec == WdInit /\ [][WdNext]_vars

\* the delay that answers the k-th failure in a row
BackoffOf(k) == IF k < 1 THEN 0 ELSE Min2(2 ^ (k - 1), BackoffCap)

\* C31: a detected failure schedules a restart after a delay that starts at
\* 1 s and doubles with each failure in a row, capped at 30 s; the failure
\* after 5 restart attempts without an event line in between schedules no
\* restart and sets the Error state; an event line resets the attempt
\* counter to 0 and the delay to 1 s (wd_consecutive counts the failures
\* detected since the last event line arrived, wd_rank is its value for
\* the failure being handled).
C31_BackoffRestartAndReset ==
    [][/\ (wd_main_pc = "schedule" /\ wd_main_pc' = "idle") =>
             wd_pending' = Append(wd_pending, BackoffOf(wd_rank))
       /\ (wd_main_pc = "test" /\ wd_main_pc' # "test") =>
             IF wd_rank > maxRestartAttempts
             THEN /\ wd_main_pc' = "idle"
                  /\ aggregateLabel' = "Error"
                  /\ wd_pending' = wd_pending
             ELSE wd_main_pc' = "schedule"
       /\ (/\ wd_line_pc \in {"test", "reset_error"}
           /\ wd_line_pc' = "idle"
           /\ wd_consecutive = 0) =>
             /\ restartAttempts' = 0
             /\ backoffDelay' = InitialBackoff]_vars

(***************************************************************************)
(* FaultSpec: when a fault leaves the table                                *)
(***************************************************************************)
\* C32 as stated: a MissingUpdate of k >= 1 cycles is removed from the table
\* by the k-th apply of its signal, the call that returns the last
\* suppressed reading, so that has_fault(id) is false right after it.
C32_RemovedByLastSuppressedApply ==
    \A id \in Ids :
        LET h == injected[id]
            k == h.params.suppress_cycles
        IN  (h.type = "MISSING_UPDATE" /\ k >= 1 /\ ~h.cleared
               /\ h.applies = k) =>
               ~HasFault(injector, id)

\* C32, amended: a MissingUpdate of k >= 1 cycles stays in the table, with
\* k minus the number of applies as its cycles_remaining, up to and including
\* the k-th apply of its signal; it is removed by the (k+1)-th apply, the
\* first call that returns its input unchanged, and has_fault(id) is false
\* from then on.
C32_RemovedByFirstUnsuppressedApply ==
    \A id \in Ids :
        LET h == injected[id]
            k == h.params.suppress_cycles
        IN  (h.type = "MISSING_UPDATE" /\ k >= 1 /\ ~h.cleared) =>
               /\ h.applies <= k =>
                     /\ HasFault(injector, id)
                     /\ injector[id].cycles_remaining = k - h.applies
               /\ h.applies = k =>
                     applied[id].output =
                        [applied[id].input EXCEPT !.valid = FALSE]
               /\ h.applies > k =>
                     /\ ~HasFault(injector, id)
                     /\ applied[id].output = applied[id].input

\* a MissingUpdate of two cycles has been applied three times: the third
\* apply returned a valid sample as it was and removed the fault
C32_Witness ==
    \E id \in Ids :
        /\ injected[id].type = "MISSING_UPDATE"
        /\ ~injected[id].cleared
        /\ injected[id].params.suppress_cycles = 2
        /\ injected[id].applies = 3
        /\ applied[id].input.valid
        /\ applied[id].output = applied[id].input
        /\ ~HasFault(injector, id)

\* the step is an apply of a sample of id
IsApplyOf(id) == injected'[id].applies = injected[id].applies + 1

\* the step is a clear(id) or a clear_all that hits the latest inject of id
IsClearOf(id) == injected'[id].cleared /\ ~injected[id].cleared

\* the step is an inject for id over a fault in place
IsReplacingInjectOf(id) ==
    /\ ~IsApplyOf(id)
    /\ injected'[id].applies = 0
    /\ injected'[id].replaced
    /\ ~injected'[id].cleared

\* id has a self-clearing fault in place
SelfClearing(id) ==
    /\ HasFault(injector, id)
    /\ injector[id].type \in {"SPIKE", "MISSING_UPDATE"}

\* C33: a Spike or MissingUpdate fault of a signal leaves the table, or has
\* its cycles_remaining changed, only by an apply of a sample of that signal,
\* a clear of it, clear_all or a replacing inject; an apply of a sample of
\* another signal leaves the fault and its cycles_remaining as they are and,
\* that other signal having no fault of its own, returns the sample
\* unmodified.
C33_SelfClearOnlyInOwnApply ==
    [][\A id \in Ids :
          SelfClearing(id) =>
             /\ (~HasFault(injector', id) \/ injector'[id] # injector[id]) =>
                   IsApplyOf(id) \/ IsClearOf(id) \/ IsReplacingInjectOf(id)
             /\ \A other \in Ids \ {id} :
                   IsApplyOf(other) =>
                      /\ HasFault(injector', id)
                      /\ injector'[id] = injector[id]
                      /\ ~HasFault(injector, other) =>
                            applied'[other].output = applied'[other].input]_vars

\* a MissingUpdate of two cycles on one signal has suppressed one sample;
\* then a sample of the other signal, which has no fault, was applied and
\* came back as it was, and the fault still has one cycle left
C33_Witness ==
    \E id \in Ids, other \in Ids :
        /\ other # id
        /\ injected[id].type = "MISSING_UPDATE"
        /\ injected[id].params.suppress_cycles = 2
        /\ injected[id].applies = 1
        /\ HasFault(injector, id)
        /\ injector[id].cycles_remaining = 1
        /\ injected[other].type = "NONE"
        /\ applied[other] # <<>>
        /\ applied[other].input.timestamp > applied[id].input.timestamp
        /\ applied[other].output = applied[other].input

(***************************************************************************)
(* PipeSpec: the signals are independent of each other                     *)
(***************************************************************************)
\* the step is the processing of a sample of id
IsSampleOf(id) == Len(pipe_hist'[id]) = Len(pipe_hist[id]) + 1

\* the transitions the engine recorded for one signal
TransitionsOf(e, id) == SelectSeq(e.transitions_, LAMBDA t : t.sensor_id = id)

\* C34: processing a sample of one signal leaves sensor_state, latest and
\* readings_for of every other signal as they were and appends no transition
\* for it.
C34_OtherSignalsUntouched ==
    [][\A id \in Ids :
          IsSampleOf(id) =>
             \A other \in Ids \ {id} :
                /\ SensorStateOf(pipe_engine', other) =
                      SensorStateOf(pipe_engine, other)
                /\ Latest(pipe_engine'.window_, other) =
                      Latest(pipe_engine.window_, other)
                /\ ReadingsFor(pipe_engine'.window_, other) =
                      ReadingsFor(pipe_engine.window_, other)
                /\ TransitionsOf(pipe_engine', other) =
                      TransitionsOf(pipe_engine, other)]_vars

\* both signals went out of OK, then one recovered with its second sample
\* while the other is still where its only sample put it
C34_Witness ==
    \E id \in Ids, other \in Ids :
        /\ other # id
        /\ Len(pipe_hist[id]) = 2
        /\ Len(pipe_hist[other]) = 1
        /\ pipe_hist[id][1].to = "DEGRADED"
        /\ pipe_hist[other][1].to = "DEGRADED"
        /\ pipe_hist[id][2].to = "OK"
        /\ pipe_hist[other][1].input.timestamp <
              pipe_hist[id][2].input.timestamp
        /\ SensorStateOf(pipe_engine, id) = "OK"
        /\ SensorStateOf(pipe_engine, other) = "DEGRADED"
        /\ Len(TransitionsOf(pipe_engine, other)) = 1

(***************************************************************************)
(* A single rule evaluated on a window (RuleSpec): a ThresholdRule or a    *)
(* MissingDataRule is constructed, samples stamped with the steady clock   *)
(* are pushed while the clock advances, and evaluate is called.            *)
(***************************************************************************)
\* how many samples are pushed before the evaluations
MaxRulePushes == 2

\* the last instant of the steady clock
MaxRuleClock == 3

\* sample values around the bounds 0.0 and 0.95
RuleValues == {-1, 0, 50, 95, 96}

\* the rules under evaluation: ThresholdRule(0.0, 0.95) with either breach
\* severity, global or for signal a, and MissingDataRules with
\* max_age < fail_age
RuleCases ==
    {ThresholdRule(0, 95, severity, target) :
        severity \in {"DEGRADED", "FAILED"}, target \in {"", "a"}}
    \cup {MissingDataRule(0, 1), MissingDataRule(1, 2), MissingDataRule(1, 3)}

\* make_reading(id, value, valid) at instant now
RuleReadingsAt(now) ==
    {SensorReading(id, v, valid, now) :
        id \in Ids, v \in RuleValues, valid \in BOOLEAN}

RuleInit ==
    /\ rule_under \in RuleCases
    /\ rule_window = MeasurementWindow(MaxCap)
    /\ rule_clock = 0
    /\ rule_npushed = 0
    /\ rule_eval = <<>>
    /\ WindowIdle /\ EngineIdle /\ DetIdle /\ FaultIdle /\ PipeIdle /\ PollIdle
    /\ SupIdle /\ LogIdle /\ StartIdle /\ WdIdle /\ IsoIdle

\* window.push(make_reading(...))
RulePush(reading) ==
    /\ rule_npushed < MaxRulePushes
    /\ rule_window' = Push(rule_window, reading)
    /\ rule_npushed' = rule_npushed + 1
    /\ UNCHANGED <<rule_under, rule_clock, rule_eval, notRuleVars>>

\* the steady clock advances
RuleClockAdvances ==
    /\ rule_clock < MaxRuleClock
    /\ rule_clock' = rule_clock + 1
    /\ UNCHANGED <<rule_under, rule_window, rule_npushed, rule_eval,
                   notRuleVars>>

\* rule.evaluate(window, sensor_id); rule_eval keeps the call: the signal,
\* the instant, the latest sample of the signal and the severity returned
RuleEvaluate(sensor_id) ==
    /\ rule_eval' =
          [sensor_id |-> sensor_id,
           now |-> rule_clock,
           latest |-> Latest(rule_window, sensor_id),
           severity |-> Evaluate(rule_under, rule_window, sensor_id,
                                 rule_clock)]
    /\ UNCHANGED <<rule_under, rule_window, rule_clock, rule_npushed,
                   notRuleVars>>

RuleNext ==
    \/ \E reading \in RuleReadingsAt(rule_clock) : RulePush(reading)
    \/ RuleClockAdvances
    \/ \E sensor_id \in Ids : RuleEvaluate(sensor_id)

RuleSpec == RuleInit /\ [][RuleNext]_vars

\* the bounds a ThresholdRule has for a signal, if it applies to it
AppliesTo(rule, sensor_id) ==
    rule.use_global_ \/ sensor_id \in DOMAIN rule.bounds_

BoundsFor(rule, sensor_id) ==
    IF rule.use_global_
    THEN [min |-> rule.min_, max |-> rule.max_,
          breach_severity |-> rule.breach_severity_]
    ELSE rule.bounds_[sensor_id]

\* C35: a ThresholdRule evaluated for a signal it applies to returns, for a
\* valid latest sample, OK if and only if min <= value <= max (the bounds
\* themselves are OK) and its breach severity otherwise, and FAILED for an
\* invalid latest sample.
C35_ThresholdStrictAtBothBounds ==
    (/\ rule_eval # <<>>
     /\ rule_under.class = "ThresholdRule"
     /\ AppliesTo(rule_under, rule_eval.sensor_id)) =>
        LET b == BoundsFor(rule_under, rule_eval.sensor_id)
            v == rule_eval.latest.value
        IN  IF rule_eval.latest.valid
            THEN /\ rule_eval.severity = "OK" <=> (b.min <= v /\ v <= b.max)
                 /\ rule_eval.severity \in {"OK", b.breach_severity}
            ELSE rule_eval.severity = "FAILED"

\* a rule for signal a found a valid latest sample exactly at its upper
\* bound and returned OK
C35_Witness ==
    /\ rule_eval # <<>>
    /\ rule_under.class = "ThresholdRule"
    /\ ~rule_under.use_global_
    /\ rule_eval.sensor_id = "a"
    /\ rule_eval.latest.valid
    /\ rule_eval.latest.value = rule_under.bounds_["a"].max
    /\ rule_eval.severity = "OK"

\* C36: a MissingDataRule(max_age, fail_age) with max_age < fail_age returns,
\* for a valid latest sample of age a = now - timestamp, OK if and only if
\* a <= max_age, DEGRADED if and only if max_age < a <= fail_age and FAILED
\* if and only if a > fail_age; for an invalid latest sample it returns
\* FAILED.
C36_MissingDataAgeBands ==
    (/\ rule_eval # <<>>
     /\ rule_under.class = "MissingDataRule"
     /\ rule_under.max_age_ < rule_under.fail_age_) =>
        LET a == rule_eval.now - rule_eval.latest.timestamp
        IN  IF rule_eval.latest.valid
            THEN /\ rule_eval.severity = "OK" <=> a <= rule_under.max_age_
                 /\ rule_eval.severity = "DEGRADED" <=>
                       (rule_under.max_age_ < a /\ a <= rule_under.fail_age_)
                 /\ rule_eval.severity = "FAILED" <=> a > rule_under.fail_age_
            ELSE rule_eval.severity = "FAILED"

\* a valid sample whose age is exactly fail_age, more than max_age, was
\* found DEGRADED
C36_Witness ==
    /\ rule_eval # <<>>
    /\ rule_under.class = "MissingDataRule"
    /\ rule_eval.latest.valid
    /\ rule_eval.now - rule_eval.latest.timestamp = rule_under.fail_age_
    /\ rule_under.max_age_ < rule_under.fail_age_
    /\ rule_eval.severity = "DEGRADED"

(***************************************************************************)
(* PipeSpec: the transition list of a signal, and UNKNOWN                  *)
(***************************************************************************)
\* C37: whenever process() has returned, the transitions recorded for a
\* signal form a chain: the first starts in UNKNOWN, each later one starts
\* where the one before ended, none goes from a state to the same state,
\* and sensor_state(id) is where the last one ended.
C37_TransitionsFormChain ==
    \A id \in Ids :
        LET ts == TransitionsOf(pipe_engine, id)
        IN  ts # <<>> =>
               /\ ts[1].from = "UNKNOWN"
               /\ \A i \in 2..Len(ts) : ts[i].from = ts[i - 1].to
               /\ \A i \in 1..Len(ts) : ts[i].from # ts[i].to
               /\ SensorStateOf(pipe_engine, id) = ts[Len(ts)].to

\* a signal has gone through a chain of three transitions
C37_Witness ==
    \E id \in Ids :
        LET ts == TransitionsOf(pipe_engine, id)
        IN  /\ Len(ts) = 3
            /\ ts[2].from = ts[1].to
            /\ ts[3].from = ts[2].to
            /\ SensorStateOf(pipe_engine, id) = ts[3].to

\* C38: aggregate_state() is UNKNOWN if and only if no sample has been
\* processed; whenever process() has returned every known signal holds a
\* state other than UNKNOWN, and the first sample of every signal appended
\* one transition, out of UNKNOWN.
C38_UnknownIffNothingProcessed ==
    /\ \A order \in IterationOrders(DOMAIN pipe_engine.sensor_states_) :
          AggregateState(pipe_engine, order) = "UNKNOWN" <=> NPiped = 0
    /\ \A id \in DOMAIN pipe_engine.sensor_states_ :
          pipe_engine.sensor_states_[id] # "UNKNOWN"
    /\ \A id \in Ids :
          pipe_hist[id] # <<>> =>
             /\ id \in DOMAIN pipe_engine.sensor_states_
             /\ pipe_hist[id][1].from = "UNKNOWN"
             /\ pipe_hist[id][1].to # "UNKNOWN"
             /\ pipe_hist[id][1].after = pipe_hist[id][1].before + 1
             /\ TransitionsOf(pipe_engine, id)[1].from = "UNKNOWN"

\* an engine without rules has processed a first valid sample of each of two
\* signals: both are known and the aggregate is OK
C38_Witness ==
    /\ pipe_engine.rules_ = <<>>
    /\ \A id \in Ids :
          /\ Len(pipe_hist[id]) = 1
          /\ pipe_hist[id][1].output.valid
          /\ pipe_hist[id][1].to = "OK"
    /\ \A order \in IterationOrders(DOMAIN pipe_engine.sensor_states_) :
          AggregateState(pipe_engine, order) = "OK"

(***************************************************************************)
(* SupSpec: two FaultConfigs on one signal                                 *)
(***************************************************************************)
\* the calls the fault schedule made on the injector before the k-th call of
\* iteration t, oldest first
RECURSIVE CallsBefore(_, _)
CallsBefore(t, k) ==
    IF t = 0 THEN <<>>
    ELSE CallsBefore(t - 1, IF t = 1 THEN 1 ELSE Len(sup_log[t - 1].calls) + 1)
         \o SubSeq(sup_log[t].calls, 1, k - 1)

\* the config whose inject was the last one for the signal among these
\* calls, 0 if there was none
LatestInstaller(calls, id) ==
    LET injects == SelectSeq(calls, LAMBDA call :
                      /\ call.op = "inject"
                      /\ sup_fault_configs[call.config].sensor_id = id)
    IN  IF injects = <<>> THEN 0 ELSE injects[Len(injects)].config

\* the table after the first k calls of an iteration that found it as faults
RECURSIVE Replay(_, _, _)
Replay(faults, calls, k) ==
    IF k = 0 THEN faults
    ELSE LET fc == sup_fault_configs[calls[k].config]
             before == Replay(faults, calls, k - 1)
         IN  IF calls[k].op = "inject"
             THEN Inject(before, fc.sensor_id, fc.type, fc.params)
             ELSE Clear(before, fc.sensor_id)

\* the table the k-th call of iteration t found
TableBefore(t, k) ==
    Replay(IF t = 1 THEN <<>> ELSE sup_log[t - 1].injector,
           sup_log[t].calls, k - 1)

\* C39: the clear a FaultConfig makes when its duration has expired removes
\* only the fault this FaultConfig installed: if the signal has a fault at
\* that moment, it is not one that another FaultConfig injected later.
C39_ExpiryRemovesOnlyOwnFault ==
    \A t \in 1..Len(sup_log) : \A k \in 1..Len(sup_log[t].calls) :
        LET call == sup_log[t].calls[k]
            id == sup_fault_configs[call.config].sensor_id
        IN  (call.op = "clear" /\ HasFault(TableBefore(t, k), id)) =>
               LatestInstaller(CallsBefore(t, k), id) = call.config

(***************************************************************************)
(* Two runs of the supervisor pipeline side by side (IsoSpec): the same    *)
(* rules and the same sensors measuring the same values in the same        *)
(* iterations; in one run a fault is on signal a from the start, in the    *)
(* other the injector is empty.  Each run has its own steady clock.        *)
(***************************************************************************)
\* iterations of the loop in each run
MaxIsoTicks == 3

\* the signal the fault is registered for
IsoFaulted == "a"

\* the delays of a DELAYED_READING fault, in loop periods: 500 ms and 5500 ms
IsoDelays == {1, 11}

\* the faults a profile can put on the signal
IsoFaultInputs ==
    FaultInputs \cup {<<"DELAYED_READING", FaultParameters(0, 0, d)>> :
                         d \in IsoDelays}

IsoInit ==
    /\ \E input \in IsoFaultInputs :
          iso_injector = Inject(<<>>, IsoFaulted, input[1], input[2])
    /\ iso_faulted = WithRules(Engine(DefaultCapacity), SupRules)
    /\ iso_clean = WithRules(Engine(DefaultCapacity), SupRules)
    /\ iso_now_faulted = 0
    /\ iso_now_clean = 0
    /\ iso_nticks = 0
    /\ WindowIdle /\ EngineIdle /\ DetIdle /\ FaultIdle /\ PipeIdle /\ PollIdle
    /\ SupIdle /\ LogIdle /\ StartIdle /\ WdIdle /\ RuleIdle

\* what poll returns at instant now when the sensors measure these values
IsoReadings(values, now) ==
    <<SensorReading("a", values["a"], TRUE, now),
      SensorReading("b", values["b"], TRUE, now)>>

\* one iteration of the loop in both runs: poll, apply, process, sleep
IsoTick(values) ==
    /\ iso_nticks < MaxIsoTicks
    /\ \E applied_ \in {ApplyLoop(iso_injector,
                                  IsoReadings(values, iso_now_faulted),
                                  1, 0)} :
          /\ iso_injector' = applied_.injector
          /\ iso_faulted' = Process(iso_faulted, applied_.readings,
                                    iso_now_faulted + applied_.slept)
          /\ iso_now_faulted' = iso_now_faulted + applied_.slept + 1
    /\ iso_clean' = Process(iso_clean,
                            ApplyLoop(<<>>, IsoReadings(values, iso_now_clean),
                                      1, 0).readings,
                            iso_now_clean)
    /\ iso_now_clean' = iso_now_clean + 1
    /\ iso_nticks' = iso_nticks + 1
    /\ UNCHANGED notIsoVars

IsoNext == \E values \in [Ids -> Values] : IsoTick(values)

IsoSpec == IsoInit /\ [][IsoNext]_vars

\* C40: a fault registered only for signal a changes nothing of what the
\* engine computes for another signal: the run with the fault and the run
\* without it, given the same samples, have the same state and the same
\* transitions (from, to) for every other signal.
C40_FaultOnOneSignalLeavesOthers ==
    \A other \in Ids \ {IsoFaulted} :
        /\ SensorStateOf(iso_faulted, other) = SensorStateOf(iso_clean, other)
        /\ EdgesOf(iso_faulted, other) = EdgesOf(iso_clean, other)

====
